---- MODULE Spec2Model ----
(***************************************************************************)
(* Attendance ledger and weekly journal engine of mex-mat.                 *)
(*                                                                         *)
(* The state is the content of the tables groups, students, lessons and    *)
(* attendance, the calendar day date.today() returns, and the response of  *)
(* the last handler.  Spec runs the curators' handlers one request at a    *)
(* time, SpecDean adds the dean's student and justification handlers,      *)
(* SpecGroups runs the group management of the dean and the vice-dean, and *)
(* SpecConc runs two mark requests statement by statement, each in its own *)
(* database session.  SpecBatch runs one marking request statement by      *)
(* statement with a failure possible before its commit, SpecLedger runs    *)
(* the journal of one group within a week together with the dean's daily   *)
(* view, and SpecWeekly runs the dean's weekly view over every week of     *)
(* lessons with no, some or all students marked.  SpecLegacy starts from   *)
(* a group whose is_active may be NULL, SpecRoster runs the journals of    *)
(* two groups while students are deleted and moved, and SpecAudit runs the *)
(* audited handlers with the insert of the audit entry able to fail.       *)
(*                                                                         *)
(* Calendar dates are integers, day 0 being a Monday, so that              *)
(* date.weekday() is d % 7.  Users are named by strings.  One faculty is   *)
(* modelled: every group, student and user belongs to it.                  *)
(***************************************************************************)
EXTENDS Integers, Sequences, FiniteSets, TLC

\* ---------------------------------------------------------------- bounds
MaxDay == 7
MaxStudents == 2
MaxLessons == 2
MaxFacts == 2
MaxRecords == 2

\* ------------------------------------------------------ program constants
MaxHours == 8
SATURDAY == 5
WeekSpan == 5
WorkDays == 6

Groups == {1, 2}
Curators == {"c1", "c2"}
NoCurator == "none"
DEAN == "dean"
NoUser == "none"
StudentIds == 1..MaxStudents
Procs == {"p1", "p2"}

HoursInputs == {0 - 1, 0, MaxHours, MaxHours + 1}
Comments == {"", "late"}
InitialHoursInputs == {0 - 1, 0, MaxHours + 1}
TRANSFER_COMMENT == "transfer"

VARIABLES groups, students, lessons, attendance, today, resp, txn

vars == <<groups, students, lessons, attendance, today, resp, txn>>

\* ------------------------------------------------------------- helpers
weekday(d) == d % 7

_week_bounds(target) ==
    LET monday == target - weekday(target)
    IN  [monday |-> monday, saturday |-> monday + WeekSpan]

\* a faulty window: Sunday counts as a day of the week that is ending
InWindow_through_sunday(mark_date, now) ==
    LET wb == _week_bounds(now)
    IN  wb.monday <= mark_date /\ mark_date <= wb.saturday + 1

InWindow(mark_date, now) ==
    LET wb == _week_bounds(now)
    IN  wb.monday <= mark_date /\ mark_date <= wb.saturday

RECURSIVE SumHours(_)
SumHours(S) ==
    IF S = {} THEN 0
    ELSE LET a == CHOOSE x \in S : TRUE
         IN  a.nb_hours + SumHours(S \ {a})

MaxId(S) ==
    IF S = {} THEN 0
    ELSE LET m == CHOOSE x \in S : \A y \in S : y.id <= x.id IN m.id

\* a faulty derivation: a mark of zero hours counts as an absence
StatusOf_zero_absent(nb_hours) == IF nb_hours >= 0 THEN "absent" ELSE "present"

StatusOf(nb_hours) == IF nb_hours > 0 THEN "absent" ELSE "present"

\* _recalc_nb: sum of nb_hours over the student's rows with status 'absent'
_recalc_nb(att, student_id) ==
    SumHours({a \in att : a.student_id = student_id /\ a.status = "absent"})

\* _get_group: the set of rows the query matches; .first() returns one of them.
\* The SQL filter is_active != false is unknown (not true) on a NULL is_active.
_get_group(curator_id) ==
    {g \in Groups : /\ groups[g].exists
                    /\ groups[g].curator_id = curator_id
                    /\ ~groups[g].is_deleted
                    /\ groups[g].is_active = "true"}

\* the rows of one (group, date): the query of _get_or_create_lesson
LessonRows(ls, group_id, lesson_date) ==
    {l \in ls : l.group_id = group_id /\ l.lesson_date = lesson_date}

NewLesson(id, group_id, lesson_date) ==
    [id |-> id, group_id |-> group_id, lesson_date |-> lesson_date]

\* a faulty resolver: it inserts a lesson without looking for the row
_get_or_create_lesson_always_create(ls, next_id, group_id, lesson_date) ==
    {[lessons |-> ls \cup {NewLesson(next_id, group_id, lesson_date)},
      id |-> next_id]}

\* _get_or_create_lesson: every result the call can have, as
\* [lessons |-> the table afterwards, id |-> the lesson returned];
\* next_id is the id the sequence of lessons.id gives a new row
_get_or_create_lesson(ls, next_id, group_id, lesson_date) ==
    LET found == LessonRows(ls, group_id, lesson_date)
    IN  IF found # {}
        THEN {[lessons |-> ls, id |-> l.id] : l \in found}
        ELSE {[lessons |-> ls \cup {NewLesson(next_id, group_id, lesson_date)},
               id |-> next_id]}

AttRows(att, student_id, lesson_id) ==
    {a \in att : a.student_id = student_id /\ a.lesson_id = lesson_id}

NewAttendance(id, lesson_id, student_id, nb_hours, status, comment, marked_by) ==
    [id |-> id, student_id |-> student_id, lesson_id |-> lesson_id,
     nb_hours |-> nb_hours, status |-> status, comment |-> comment,
     marked_by |-> marked_by, is_reasoned |-> FALSE, reason_text |-> "",
     reasoned_by |-> NoUser]

\* a faulty upsert: marking a student present deletes the row of the pair
_upsert_attendance_delete_present(att, lesson_id, student_id, nb_hours, comment, marked_by) ==
    LET found == AttRows(att, student_id, lesson_id)
    IN  IF nb_hours = 0
        THEN att \ found
        ELSE IF found # {}
        THEN LET old == CHOOSE a \in found : \A b \in found : a.id <= b.id
             IN  (att \ {old}) \cup
                 {[old EXCEPT !.nb_hours = nb_hours,
                              !.status = StatusOf(nb_hours),
                              !.comment = comment,
                              !.marked_by = marked_by]}
        ELSE att \cup {NewAttendance(MaxId(att) + 1, lesson_id, student_id,
                                     nb_hours, StatusOf(nb_hours), comment,
                                     marked_by)}

\* a faulty upsert: it inserts a row without looking for the row of the pair
_upsert_attendance_always_insert(att, lesson_id, student_id, nb_hours, comment, marked_by) ==
    att \cup {NewAttendance(MaxId(att) + 1, lesson_id, student_id,
                            nb_hours, StatusOf(nb_hours), comment, marked_by)}

\* a faulty upsert: a correction of the hours drops the justification
_upsert_attendance_clears_reason(att, lesson_id, student_id, nb_hours, comment, marked_by) ==
    LET found == AttRows(att, student_id, lesson_id)
    IN  IF found # {}
        THEN LET old == CHOOSE a \in found : \A b \in found : a.id <= b.id
             IN  (att \ {old}) \cup
                 {[old EXCEPT !.nb_hours = nb_hours,
                              !.status = StatusOf(nb_hours),
                              !.comment = comment,
                              !.marked_by = marked_by,
                              !.is_reasoned = FALSE,
                              !.reason_text = "",
                              !.reasoned_by = NoUser]}
        ELSE att \cup {NewAttendance(MaxId(att) + 1, lesson_id, student_id,
                                     nb_hours, StatusOf(nb_hours), comment,
                                     marked_by)}

\* _upsert_attendance: update the row of (student, lesson) or insert one
_upsert_attendance(att, lesson_id, student_id, nb_hours, comment, marked_by) ==
    LET found == AttRows(att, student_id, lesson_id)
    IN  IF found # {}
        THEN LET old == CHOOSE a \in found : \A b \in found : a.id <= b.id
             IN  (att \ {old}) \cup
                 {[old EXCEPT !.nb_hours = nb_hours,
                              !.status = StatusOf(nb_hours),
                              !.comment = comment,
                              !.marked_by = marked_by]}
        ELSE att \cup {NewAttendance(MaxId(att) + 1, lesson_id, student_id,
                                     nb_hours, StatusOf(nb_hours), comment,
                                     marked_by)}

\* a faulty roster: every live student counts, whatever the group
ValidSids_any_group(group_id) ==
    {s \in StudentIds : students[s].exists /\ ~students[s].is_deleted}

\* the non-deleted students of a group (valid_sids of mark_day and save_week)
ValidSids(group_id) ==
    {s \in StudentIds : /\ students[s].exists
                        /\ students[s].group_id = group_id
                        /\ ~students[s].is_deleted}

\* a faulty loop: the first record that fails a filter ends the batch
RECURSIVE ApplyRecords_stops_at_invalid(_, _, _, _, _, _)
ApplyRecords_stops_at_invalid(att, lesson_id, records, valid_sids, marked_by, acc) ==
    IF records = << >> THEN [att |-> att, updated |-> acc.updated, n |-> acc.n]
    ELSE LET rec == Head(records)
         IN  IF rec.student_id \notin valid_sids
                \/ rec.nb_hours < 0 \/ rec.nb_hours > MaxHours
             THEN [att |-> att, updated |-> acc.updated, n |-> acc.n]
             ELSE ApplyRecords_stops_at_invalid(
                      _upsert_attendance(att, lesson_id, rec.student_id,
                                         rec.nb_hours, rec.comment, marked_by),
                      lesson_id, Tail(records), valid_sids, marked_by,
                      [updated |-> acc.updated \cup {rec.student_id},
                       n |-> acc.n + 1])

\* the loop of mark_day / save_week over the records of one day:
\* [att |-> the table afterwards, updated |-> the students upserted, n |-> their number]
RECURSIVE ApplyRecords(_, _, _, _, _, _)
ApplyRecords(att, lesson_id, records, valid_sids, marked_by, acc) ==
    IF records = << >> THEN [att |-> att, updated |-> acc.updated, n |-> acc.n]
    ELSE LET rec == Head(records)
         IN  IF rec.student_id \notin valid_sids
                \/ rec.nb_hours < 0 \/ rec.nb_hours > MaxHours
             THEN ApplyRecords(att, lesson_id, Tail(records), valid_sids,
                               marked_by, acc)
             ELSE ApplyRecords(
                      _upsert_attendance(att, lesson_id, rec.student_id,
                                         rec.nb_hours, rec.comment, marked_by),
                      lesson_id, Tail(records), valid_sids, marked_by,
                      [updated |-> acc.updated \cup {rec.student_id},
                       n |-> acc.n + 1])

\* the recalculation loop: total_absent_hours of every touched student
RecalcAll(att, touched) ==
    [s \in StudentIds |->
        IF s \in touched
        THEN [students[s] EXCEPT !.total_absent_hours = _recalc_nb(att, s)]
        ELSE students[s]]

Response(op, code) == [op |-> op, code |-> code]

\* an HTTPException raised before any write: the session is closed unchanged
Reject(op, code) ==
    /\ resp' = Response(op, code)
    /\ UNCHANGED <<groups, students, lessons, attendance, today, txn>>

\* ------------------------------------------------------------- inputs
\* a date string of a payload: an ISO date, a malformed one, or none at all
DateStrs(now) ==
    LET wb == _week_bounds(now)
    IN  {[kind |-> "iso", date |-> d] :
            d \in {wb.monday - 1, now, wb.saturday + 1}}
        \cup {[kind |-> "bad", date |-> 0], [kind |-> "none", date |-> 0]}

RecordInputs ==
    [student_id : StudentIds, nb_hours : {0, MaxHours}, comment : {""}]
    \cup [student_id : {1}, nb_hours : {0 - 1, MaxHours + 1}, comment : {""}]

RecordLists ==
    UNION {[1..n -> RecordInputs] : n \in 0..MaxRecords}

WeekRecordLists ==
    {<< >>} \cup {<<r>> : r \in [student_id : StudentIds,
                                 nb_hours : {MaxHours}, comment : {""}]}

\* the days of a save_week payload, in the order the dict is iterated
WeekDays(now) ==
    LET wb == _week_bounds(now)
        entries == [date_str : {[kind |-> "iso", date |-> d] :
                                  d \in {wb.saturday, wb.saturday + 1}}
                                \cup {[kind |-> "bad", date |-> 0]},
                    records : WeekRecordLists]
    IN  {<< >>} \cup {<<e>> : e \in entries}
        \cup {<<e1, e2>> : e1 \in entries,
                           e2 \in {e \in entries : e.date_str.kind = "iso"
                                                   /\ e.records # << >>}}

JustifyPayloads ==
    {[is_reasoned |-> TRUE, reason_text |-> "sick"]}

\* ------------------------------------------------------------- initial state
\* a session with no request in progress
IdleTxn ==
    [pc |-> "idle", curator_id |-> NoUser, group_id |-> 0, sid |-> 0,
     mark_date |-> 0, nb_hours |-> 0, lesson_id |-> 0, loaded |-> {},
     loaded_total |-> 0, new_lessons |-> {}, new_att |-> {}, upd_att |-> {},
     total |-> 0, op |-> "none", days |-> << >>, records |-> << >>,
     touched |-> {}, new_totals |-> {}]

Init ==
    /\ groups = [g \in Groups |->
                    [exists |-> TRUE,
                     curator_id |-> IF g = 1 THEN "c1" ELSE "c2",
                     is_active |-> "true", is_closed |-> FALSE,
                     is_deleted |-> FALSE]]
    /\ students = [s \in StudentIds |->
                    [exists |-> s <= 1,
                     group_id |-> IF s = 2 THEN 2 ELSE 1,
                     is_deleted |-> FALSE, total_absent_hours |-> 0]]
    /\ lessons = {}
    /\ attendance = {}
    /\ today \in SATURDAY..MaxDay
    /\ resp = Response("init", "ok")
    /\ txn = [p \in Procs |-> IdleTxn]

\* ------------------------------------------------------------- curator
\* _get_open_group: the condition it raises for the group _get_group returned
GateCode(curator_id, g) ==
    IF _get_group(curator_id) = {} THEN "NoActiveGroup"
    ELSE IF groups[g].is_closed THEN "GroupClosed"
    ELSE "ok"

\* the groups .first() can return to the curator (0: the query matched none)
GateGroups(curator_id) ==
    IF _get_group(curator_id) = {} THEN {0} ELSE _get_group(curator_id)

\* the checks of mark_day before its first write, in the order of the code
mark_day_code(curator_id, g, date_str) ==
    IF GateCode(curator_id, g) # "ok" THEN GateCode(curator_id, g)
    ELSE IF date_str.kind # "iso" THEN "BadRequest"
    ELSE IF ~InWindow(date_str.date, today) THEN "OutOfWindow"
    ELSE "ok"

\* the writes of mark_day once its checks have passed: the lesson of the day,
\* the records of the payload, the totals of the students upserted
mark_day_writes(curator_id, g, mark_date, records) ==
    {LET r == ApplyRecords(attendance, lr.id, records, ValidSids(g),
                           curator_id, [updated |-> {}, n |-> 0])
     IN  [lessons |-> lr.lessons, attendance |-> r.att,
          students |-> RecalcAll(r.att, r.updated),
          lesson_id |-> lr.id, updated_count |-> r.n] :
        lr \in _get_or_create_lesson(lessons, MaxId(lessons) + 1, g, mark_date)}

mark_day_then(curator_id, date_str, record_lists, code) ==
    \E g \in GateGroups(curator_id) :
      IF mark_day_code(curator_id, g, date_str) # "ok"
      THEN Reject("mark_day", mark_day_code(curator_id, g, date_str))
      ELSE \E records \in record_lists :
           \E w \in mark_day_writes(curator_id, g, date_str.date, records) :
             /\ Cardinality(w.lessons) <= MaxLessons
             /\ Cardinality(w.attendance) <= MaxFacts
             /\ lessons' = w.lessons
             /\ attendance' = w.attendance
             /\ students' = w.students
             /\ resp' = Response("mark_day", code)
             /\ UNCHANGED <<groups, today, txn>>

\* mark_day with its audit entry written
mark_day(curator_id, date_str, record_lists) ==
    mark_day_then(curator_id, date_str, record_lists, "ok")

\* the checks of mark_student before its first write, in the order of the code
mark_student_code(curator_id, g, sid, date_str, nb_hours) ==
    IF GateCode(curator_id, g) # "ok" THEN GateCode(curator_id, g)
    ELSE IF sid = 0 \/ date_str.kind = "none" THEN "BadRequest"
    ELSE IF date_str.kind # "iso" THEN "BadRequest"
    ELSE IF ~InWindow(date_str.date, today) THEN "OutOfWindow"
    ELSE IF nb_hours < 0 \/ nb_hours > MaxHours THEN "InvalidHours"
    ELSE IF sid \notin ValidSids(g) THEN "NotFound"
    ELSE "ok"

\* the writes of mark_student once its checks have passed, on the tables
\* ls, att, studs: the lesson of the day, the upsert, the student's total
mark_student_writes(ls, att, studs, curator_id, g, sid, mark_date, nb_hours, comment) ==
    {LET a2 == _upsert_attendance(att, lr.id, sid, nb_hours, comment, curator_id)
     IN  [lessons |-> lr.lessons, attendance |-> a2,
          students |-> [studs EXCEPT ![sid].total_absent_hours =
                                        _recalc_nb(a2, sid)]] :
        lr \in _get_or_create_lesson(ls, MaxId(ls) + 1, g, mark_date)}

mark_student(curator_id, sid, date_str, nb_hours, comment) ==
    \E g \in GateGroups(curator_id) :
      IF mark_student_code(curator_id, g, sid, date_str, nb_hours) # "ok"
      THEN Reject("mark_student", mark_student_code(curator_id, g, sid, date_str, nb_hours))
      ELSE \E w \in mark_student_writes(lessons, attendance, students, curator_id,
                                        g, sid, date_str.date, nb_hours, comment) :
             /\ Cardinality(w.lessons) <= MaxLessons
             /\ Cardinality(w.attendance) <= MaxFacts
             /\ lessons' = w.lessons
             /\ attendance' = w.attendance
             /\ students' = w.students
             /\ resp' = Response("mark_student", "ok")
             /\ UNCHANGED <<groups, today, txn>>

\* a faulty day loop: a day outside monday..saturday is written like the others
RECURSIVE ApplyDays_any_date(_, _, _, _, _, _, _)
ApplyDays_any_date(ls, att, days, g, monday, marked_by, acc) ==
    IF days = << >>
    THEN {[lessons |-> ls, att |-> att, updated |-> acc.updated, n |-> acc.n]}
    ELSE LET day == Head(days)
         IN  IF day.date_str.kind # "iso"
             THEN ApplyDays_any_date(ls, att, Tail(days), g, monday, marked_by, acc)
             ELSE UNION {
                    LET r == ApplyRecords(att, lr.id, day.records, ValidSids(g),
                                          marked_by, acc)
                    IN  ApplyDays_any_date(lr.lessons, r.att, Tail(days), g, monday,
                                  marked_by, [updated |-> r.updated, n |-> r.n])
                    : lr \in _get_or_create_lesson(ls, MaxId(ls) + 1, g,
                                                   day.date_str.date)}

\* the loop of save_week over the days of the payload:
\* [lessons, att, updated, n] after the days; a day that is malformed or
\* outside monday..saturday is skipped before its lesson is resolved
RECURSIVE ApplyDays(_, _, _, _, _, _, _)
ApplyDays(ls, att, days, g, monday, marked_by, acc) ==
    IF days = << >>
    THEN {[lessons |-> ls, att |-> att, updated |-> acc.updated, n |-> acc.n]}
    ELSE LET day == Head(days)
         IN  IF day.date_str.kind # "iso"
                \/ ~(monday <= day.date_str.date
                     /\ day.date_str.date <= monday + WeekSpan)
             THEN ApplyDays(ls, att, Tail(days), g, monday, marked_by, acc)
             ELSE UNION {
                    LET r == ApplyRecords(att, lr.id, day.records, ValidSids(g),
                                          marked_by, acc)
                    IN  ApplyDays(lr.lessons, r.att, Tail(days), g, monday,
                                  marked_by, [updated |-> r.updated, n |-> r.n])
                    : lr \in _get_or_create_lesson(ls, MaxId(ls) + 1, g,
                                                   day.date_str.date)}

\* faulty checks: week_start is parsed before the day of the week is looked at
save_week_code_parse_first(curator_id, g, week_start) ==
    IF GateCode(curator_id, g) # "ok" THEN GateCode(curator_id, g)
    ELSE IF week_start.kind # "iso" THEN "BadRequest"
    ELSE IF weekday(today) # SATURDAY THEN "WrongDay"
    ELSE IF week_start.date - weekday(week_start.date)
            # _week_bounds(today).monday THEN "OutOfWindow"
    ELSE "ok"

\* the checks of save_week before its first write, in the order of the code
save_week_code(curator_id, g, week_start) ==
    IF GateCode(curator_id, g) # "ok" THEN GateCode(curator_id, g)
    ELSE IF weekday(today) # SATURDAY THEN "WrongDay"
    ELSE IF week_start.kind # "iso" THEN "BadRequest"
    ELSE IF week_start.date - weekday(week_start.date)
            # _week_bounds(today).monday THEN "OutOfWindow"
    ELSE "ok"

save_week_then(curator_id, week_start, week_days, code) ==
    \E g \in GateGroups(curator_id) :
      IF save_week_code(curator_id, g, week_start) # "ok"
      THEN Reject("save_week", save_week_code(curator_id, g, week_start))
      ELSE \E days \in week_days :
           \E r \in ApplyDays(lessons, attendance, days, g,
                              week_start.date - weekday(week_start.date),
                              curator_id, [updated |-> {}, n |-> 0]) :
             /\ Cardinality(r.lessons) <= MaxLessons
             /\ Cardinality(r.att) <= MaxFacts
             /\ lessons' = r.lessons
             /\ attendance' = r.att
             /\ students' = RecalcAll(r.att, r.updated)
             /\ resp' = Response("save_week", code)
             /\ UNCHANGED <<groups, today, txn>>

\* save_week with its audit entry written
save_week(curator_id, week_start, week_days) ==
    save_week_then(curator_id, week_start, week_days, "ok")

\* the id the students table gives the next row
FreeStudentIds == {s \in StudentIds : ~students[s].exists}

NextStudentId == CHOOSE s \in FreeStudentIds : \A x \in FreeStudentIds : s <= x

create_student_code(curator_id, g, name_ok) ==
    IF GateCode(curator_id, g) # "ok" THEN GateCode(curator_id, g)
    ELSE IF ~name_ok THEN "BadRequest"
    ELSE "ok"

\* curator create_student; a positive initial_nb_hours becomes a fact of the
\* group's lesson of today
create_student(curator_id, name_ok, initial_nb_hours) ==
    \E g \in GateGroups(curator_id) :
      IF create_student_code(curator_id, g, name_ok) # "ok"
      THEN Reject("create_student", create_student_code(curator_id, g, name_ok))
      ELSE /\ FreeStudentIds # {}
           /\ LET sid == NextStudentId
                  s == [exists |-> TRUE, group_id |-> g, is_deleted |-> FALSE,
                        total_absent_hours |-> initial_nb_hours]
              IN  /\ students' = [students EXCEPT ![sid] = s]
                  /\ IF initial_nb_hours > 0
                     THEN \E lr \in _get_or_create_lesson(lessons, MaxId(lessons) + 1, g, today) :
                            /\ Cardinality(lr.lessons) <= MaxLessons
                            /\ lessons' = lr.lessons
                            /\ attendance' =
                                 IF AttRows(attendance, sid, lr.id) = {}
                                 THEN attendance \cup
                                      {NewAttendance(MaxId(attendance) + 1,
                                           lr.id, sid, initial_nb_hours,
                                           "absent", TRANSFER_COMMENT,
                                           curator_id)}
                                 ELSE attendance
                            /\ Cardinality(attendance') <= MaxFacts
                     ELSE UNCHANGED <<lessons, attendance>>
           /\ resp' = Response("create_student", "ok")
           /\ UNCHANGED <<groups, today, txn>>

delete_student_code(curator_id, g, sid) ==
    IF GateCode(curator_id, g) # "ok" THEN GateCode(curator_id, g)
    ELSE IF sid \notin ValidSids(g) THEN "NotFound"
    ELSE "ok"

\* curator delete_student: the soft delete
delete_student(curator_id, sid) ==
    \E g \in GateGroups(curator_id) :
      IF delete_student_code(curator_id, g, sid) # "ok"
      THEN Reject("delete_student", delete_student_code(curator_id, g, sid))
      ELSE /\ students' = [students EXCEPT ![sid].is_deleted = TRUE]
           /\ resp' = Response("delete_student", "ok")
           /\ UNCHANGED <<groups, lessons, attendance, today, txn>>

\* ------------------------------------------------------------- dean
\* the groups of the dean's faculty that are not deleted
FacultyGroups == {g \in Groups : groups[g].exists /\ ~groups[g].is_deleted}

\* the students the dean's query finds: not deleted, joined to their group
DeanStudents == {s \in StudentIds : students[s].exists /\ ~students[s].is_deleted}

dean_create_student(group_id) ==
    IF group_id \notin FacultyGroups
    THEN Reject("dean_create_student", "BadRequest")
    ELSE /\ FreeStudentIds # {}
         /\ students' = [students EXCEPT ![NextStudentId] =
                [exists |-> TRUE, group_id |-> group_id, is_deleted |-> FALSE,
                 total_absent_hours |-> 0]]
         /\ resp' = Response("dean_create_student", "ok")
         /\ UNCHANGED <<groups, lessons, attendance, today, txn>>

\* dean update_student: group_id is stored as the form gives it; only the
\* foreign key refuses a group that does not exist
dean_update_student(sid, group_id) ==
    IF sid \notin DeanStudents
    THEN Reject("dean_update_student", "NotFound")
    ELSE IF ~groups[group_id].exists
    THEN Reject("dean_update_student", "ServerError")
    ELSE /\ students' = [students EXCEPT ![sid].group_id = group_id]
         /\ resp' = Response("dean_update_student", "ok")
         /\ UNCHANGED <<groups, lessons, attendance, today, txn>>

dean_delete_student(sid) ==
    IF sid \notin DeanStudents
    THEN Reject("dean_delete_student", "NotFound")
    ELSE /\ students' = [students EXCEPT ![sid].is_deleted = TRUE]
         /\ resp' = Response("dean_delete_student", "ok")
         /\ UNCHANGED <<groups, lessons, attendance, today, txn>>

\* the group a fact belongs to, through its lesson
GroupOfFact(a) ==
    LET l == CHOOSE x \in lessons : x.id = a.lesson_id IN l.group_id

justify_attendance_then(att_id, payload, code) ==
    LET found == {a \in attendance : a.id = att_id /\ groups[GroupOfFact(a)].exists}
    IN  IF found = {}
        THEN Reject("justify_attendance", "NotFound")
        ELSE LET att == CHOOSE a \in found : TRUE
             IN  /\ attendance' = (attendance \ {att}) \cup
                        {[att EXCEPT !.is_reasoned = payload.is_reasoned,
                                     !.reason_text = payload.reason_text,
                                     !.reasoned_by = DEAN]}
                 /\ resp' = Response("justify_attendance", code)
                 /\ UNCHANGED <<groups, students, lessons, today, txn>>

\* justify_attendance with its audit entry written
justify_attendance(att_id, payload) ==
    justify_attendance_then(att_id, payload, "ok")

\* the status branch of _batch_attendance_for_date; lid = 0 stands for no lesson
DailyStatus(lid, marked, total) ==
    IF lid = 0 \/ marked = 0 THEN "NOT_STARTED"
    ELSE IF marked >= total THEN "COMPLETED"
    ELSE "IN_PROGRESS"

\* a faulty count: only the rows with status 'absent' count as marked
_batch_attendance_for_date_absent_only(gid, target) ==
    LET lids == {l.id : l \in {m \in lessons : m.group_id = gid
                                               /\ m.lesson_date = target}}
        total == Cardinality({s \in StudentIds : /\ students[s].exists
                                                 /\ students[s].group_id = gid
                                                 /\ ~students[s].is_deleted})
        info(lid) ==
            LET marked == Cardinality({a \in attendance : a.lesson_id = lid
                                                      /\ a.status = "absent"})
            IN  [lesson_id |-> lid, marked |-> marked,
                 total_students |-> total,
                 status |-> DailyStatus(lid, marked, total)]
    IN  IF lids = {} THEN {info(0)} ELSE {info(lid) : lid \in lids}

\* _batch_attendance_for_date for one group: total counts the group's
\* students that are not deleted, marked counts the rows of the lesson.
\* lesson_map keeps one lesson per group; with several lessons for the date
\* it keeps whichever the query returns last, so the result is a set.
_batch_attendance_for_date(gid, target) ==
    LET lids == {l.id : l \in {m \in lessons : m.group_id = gid
                                               /\ m.lesson_date = target}}
        total == Cardinality({s \in StudentIds : /\ students[s].exists
                                                 /\ students[s].group_id = gid
                                                 /\ ~students[s].is_deleted})
        info(lid) ==
            LET marked == Cardinality({a \in attendance : a.lesson_id = lid})
            IN  [lesson_id |-> lid, marked |-> marked,
                 total_students |-> total,
                 status |-> DailyStatus(lid, marked, total)]
    IN  IF lids = {} THEN {info(0)} ELSE {info(lid) : lid \in lids}

\* the has_attendance flag of groups_without_attendance: the group is in
\* `filled` when a lesson row of the group exists for the date
has_attendance(gid, d) ==
    \E l \in lessons : l.group_id = gid /\ l.lesson_date = d

\* the groups daily_control and weekly_control report on
ControlGroups ==
    {g \in Groups : /\ groups[g].exists /\ ~groups[g].is_deleted
                    /\ groups[g].is_active = "true"}

\* a faulty rounding: the percentage is cut off instead of rounded
PyRound_truncates(num, den) == num \div den

\* Python round(num / den) for num >= 0: to the nearest integer, a tie to the
\* even one
PyRound(num, den) ==
    LET q == num \div den
        r == num % den
    IN  IF 2 * r < den THEN q
        ELSE IF 2 * r > den THEN q + 1
        ELSE IF q % 2 = 0 THEN q ELSE q + 1

\* completion_percentage of a daily_control entry:
\* round(marked / total_s * 100) if total_s else 0
completion_percentage(info) ==
    IF info.total_students = 0 THEN 0
    ELSE PyRound(info.marked * 100, info.total_students)

\* one day of weekly_control for a group: lesson_map keeps one lesson of the
\* (group, date); marked counts its rows
WeekDayInfos(gid, d, total_s) ==
    LET lids == {l.id : l \in LessonRows(lessons, gid, d)}
        info(lid) ==
            LET marked == IF lid = 0 THEN 0
                          ELSE Cardinality({a \in attendance : a.lesson_id = lid})
            IN  [day |-> d, status |-> DailyStatus(lid, marked, total_s),
                 marked |-> marked, total |-> total_s]
    IN  IF lids = {} THEN {info(0)} ELSE {info(lid) : lid \in lids}

\* the loop of weekly_control over the days of the week
RECURSIVE WeekLoop(_, _, _, _)
WeekLoop(gid, days, total_s, acc) ==
    IF days = << >> THEN {acc}
    ELSE UNION {WeekLoop(gid, Tail(days), total_s,
                    [days |-> Append(acc.days, info),
                     completed_count |-> IF info.status = "COMPLETED"
                                         THEN acc.completed_count + 1
                                         ELSE acc.completed_count,
                     missing_days |-> IF info.status # "COMPLETED"
                                      THEN Append(acc.missing_days, info.day)
                                      ELSE acc.missing_days]) :
                info \in WeekDayInfos(gid, Head(days), total_s)}

\* the entry of weekly_control for one group and the week starting at monday
WeeklyReports(gid, monday) ==
    LET days == [i \in 1..WorkDays |-> monday + i - 1]
        total_s == Cardinality(ValidSids(gid))
    IN  {[total_students |-> total_s, days |-> r.days,
          missing_days |-> r.missing_days,
          completion_pct |-> PyRound(r.completed_count * 100, WorkDays)] :
            r \in WeekLoop(gid, days, total_s,
                           [days |-> << >>, completed_count |-> 0,
                            missing_days |-> << >>])}

\* weekly_control: a read; a malformed week_start is refused
weekly_control(week_start) ==
    IF week_start.kind = "bad"
    THEN Reject("weekly_control", "BadRequest")
    ELSE /\ resp' = Response("weekly_control", "ok")
         /\ UNCHANGED <<groups, students, lessons, attendance, today, txn>>

\* ------------------------------------------------------------- vice-dean
close_group_code(gid) ==
    IF gid \notin FacultyGroups THEN "NotFound"
    ELSE IF groups[gid].is_closed THEN "BadRequest"
    ELSE "ok"

close_group(gid) ==
    IF close_group_code(gid) # "ok"
    THEN Reject("close_group", close_group_code(gid))
    ELSE /\ groups' = [groups EXCEPT ![gid].is_closed = TRUE,
                                     ![gid].is_active = "false"]
         /\ resp' = Response("close_group", "ok")
         /\ UNCHANGED <<students, lessons, attendance, today, txn>>

reopen_group_code(gid) ==
    IF gid \notin FacultyGroups THEN "NotFound"
    ELSE IF ~groups[gid].is_closed THEN "BadRequest"
    ELSE "ok"

reopen_group(gid) ==
    IF reopen_group_code(gid) # "ok"
    THEN Reject("reopen_group", reopen_group_code(gid))
    ELSE /\ groups' = [groups EXCEPT ![gid].is_closed = FALSE,
                                     ![gid].is_active = "true"]
         /\ resp' = Response("reopen_group", "ok")
         /\ UNCHANGED <<students, lessons, attendance, today, txn>>

\* ------------------------------------------------------------- groups
\* the users of the faculty with the curator role, none of them deleted
IsCurator(user_id) == user_id \in Curators

FreeGroupIds == {g \in Groups : ~groups[g].exists}

NextGroupId == CHOOSE g \in FreeGroupIds : \A x \in FreeGroupIds : g <= x

\* the row both create_group handlers insert: is_active true, is_closed not set
NewGroup(curator_id) ==
    [exists |-> TRUE, curator_id |-> curator_id, is_active |-> "true",
     is_closed |-> FALSE, is_deleted |-> FALSE]

\* dean create_group and vice-dean create_group: the curator, when given,
\* must be a curator of the faculty
create_group(op, curator_id) ==
    IF curator_id # NoCurator /\ ~IsCurator(curator_id)
    THEN Reject(op, "BadRequest")
    ELSE /\ FreeGroupIds # {}
         /\ groups' = [groups EXCEPT ![NextGroupId] = NewGroup(curator_id)]
         /\ resp' = Response(op, "ok")
         /\ UNCHANGED <<students, lessons, attendance, today, txn>>

\* dean update_group: the form's curator_id is stored as it comes
dean_update_group(gid, curator_id) ==
    IF gid \notin FacultyGroups
    THEN Reject("dean_update_group", "NotFound")
    ELSE /\ groups' = [groups EXCEPT
                ![gid].curator_id = curator_id,
                ![gid].is_active = IF curator_id # NoCurator THEN "true"
                                   ELSE groups[gid].is_active]
         /\ resp' = Response("dean_update_group", "ok")
         /\ UNCHANGED <<students, lessons, attendance, today, txn>>

\* a faulty patch: activating a group also clears its lock
PatchedGroup_reopens(g, payload) ==
    LET g1 == IF ~payload.has_curator THEN g
              ELSE IF payload.curator_id # NoCurator
              THEN [g EXCEPT !.curator_id = payload.curator_id,
                             !.is_active = "true"]
              ELSE [g EXCEPT !.curator_id = NoCurator]
    IN  IF payload.has_active
        THEN [g1 EXCEPT !.is_active = IF payload.is_active THEN "true"
                                      ELSE "false",
                        !.is_closed = IF payload.is_active THEN FALSE ELSE @]
        ELSE g1

\* the group row after the curator_id and is_active keys of a JSON payload
\* [has_curator, curator_id, has_active, is_active] are applied
PatchedGroup(g, payload) ==
    LET g1 == IF ~payload.has_curator THEN g
              ELSE IF payload.curator_id # NoCurator
              THEN [g EXCEPT !.curator_id = payload.curator_id,
                             !.is_active = "true"]
              ELSE [g EXCEPT !.curator_id = NoCurator]
    IN  IF payload.has_active
        THEN [g1 EXCEPT !.is_active = IF payload.is_active THEN "true"
                                      ELSE "false"]
        ELSE g1

PatchCode(payload) ==
    IF payload.has_curator /\ payload.curator_id # NoCurator
       /\ ~IsCurator(payload.curator_id)
    THEN "BadRequest" ELSE "ok"

dean_patch_group(gid, payload) ==
    IF gid \notin FacultyGroups
    THEN Reject("dean_patch_group", "NotFound")
    ELSE IF PatchCode(payload) # "ok"
    THEN Reject("dean_patch_group", PatchCode(payload))
    ELSE /\ groups' = [groups EXCEPT ![gid] = PatchedGroup(groups[gid], payload)]
         /\ resp' = Response("dean_patch_group", "ok")
         /\ UNCHANGED <<students, lessons, attendance, today, txn>>

\* the group row after assign-curator: a curator activates the group
AssignedGroup(g, curator_id) ==
    IF curator_id # NoCurator
    THEN [g EXCEPT !.curator_id = curator_id, !.is_active = "true"]
    ELSE [g EXCEPT !.curator_id = NoCurator]

assign_curator_to_group(gid, curator_id) ==
    IF gid \notin FacultyGroups
    THEN Reject("assign_curator_to_group", "NotFound")
    ELSE IF curator_id # NoCurator /\ ~IsCurator(curator_id)
    THEN Reject("assign_curator_to_group", "BadRequest")
    ELSE /\ groups' = [groups EXCEPT
                          ![gid] = AssignedGroup(groups[gid], curator_id)]
         /\ resp' = Response("assign_curator_to_group", "ok")
         /\ UNCHANGED <<students, lessons, attendance, today, txn>>

\* dean delete_group and vice-dean delete_group: the soft delete
delete_group(op, gid) ==
    IF gid \notin FacultyGroups
    THEN Reject(op, "NotFound")
    ELSE /\ groups' = [groups EXCEPT ![gid].is_deleted = TRUE]
         /\ resp' = Response(op, "ok")
         /\ UNCHANGED <<students, lessons, attendance, today, txn>>

vd_update_group_code(gid, payload) ==
    IF gid \notin FacultyGroups THEN "NotFound"
    ELSE IF groups[gid].is_closed THEN "BadRequest"
    ELSE PatchCode(payload)

vd_update_group(gid, payload) ==
    IF vd_update_group_code(gid, payload) # "ok"
    THEN Reject("vd_update_group", vd_update_group_code(gid, payload))
    ELSE /\ groups' = [groups EXCEPT ![gid] = PatchedGroup(groups[gid], payload)]
         /\ resp' = Response("vd_update_group", "ok")
         /\ UNCHANGED <<students, lessons, attendance, today, txn>>

assign_curator_code(gid, curator_id) ==
    IF gid \notin FacultyGroups THEN "NotFound"
    ELSE IF groups[gid].is_closed THEN "BadRequest"
    ELSE IF curator_id # NoCurator /\ ~IsCurator(curator_id) THEN "BadRequest"
    ELSE "ok"

assign_curator(gid, curator_id) ==
    IF assign_curator_code(gid, curator_id) # "ok"
    THEN Reject("assign_curator", assign_curator_code(gid, curator_id))
    ELSE /\ groups' = [groups EXCEPT
                          ![gid] = AssignedGroup(groups[gid], curator_id)]
         /\ resp' = Response("assign_curator", "ok")
         /\ UNCHANGED <<students, lessons, attendance, today, txn>>

\* ------------------------------------------------------------- environment
\* date.today() moves on
Tick ==
    /\ today < MaxDay
    /\ today' = today + 1
    /\ resp' = Response("tick", "ok")
    /\ UNCHANGED <<groups, students, lessons, attendance, txn>>

\* ------------------------------------------------------------- Spec
\* the curators' journal over the end of one week and the start of the next,
\* with the vice-dean closing and reopening groups
CuratorNext ==
    \/ \E ds \in DateStrs(today) : mark_day("c1", ds, RecordLists)
    \/ \E c \in Curators : \E sid \in 0..MaxStudents : \E ds \in DateStrs(today) :
         \E h \in HoursInputs : mark_student(c, sid, ds, h, "")
    \/ \E ws \in DateStrs(today) : save_week("c1", ws, WeekDays(today))
    \/ \E c \in Curators : \E ok \in BOOLEAN : \E h \in InitialHoursInputs :
         create_student(c, ok, h)
    \/ \E sid \in StudentIds : delete_student("c1", sid)

LockNext ==
    \/ \E g \in Groups : close_group(g)
    \/ \E g \in Groups : reopen_group(g)

Next == CuratorNext \/ LockNext \/ Tick

Spec == Init /\ [][Next]_vars

\* ------------------------------------------------------------- SpecDean
\* the dean and the vice-dean acting on the journal of one Saturday
InitDean == Init /\ today = SATURDAY

TodayStr == [kind |-> "iso", date |-> today]

DeanRecordLists ==
    {<< >>} \cup {<<r>> : r \in [student_id : StudentIds,
                                 nb_hours : {MaxHours}, comment : {""}]}

DeanWeekDays ==
    {<<[date_str |-> TodayStr, records |-> rs]>> : rs \in DeanRecordLists}

DeanCuratorNext ==
    \/ \E sid \in StudentIds : \E h \in {0, MaxHours} :
         mark_student("c1", sid, TodayStr, h, "")
    \/ save_week("c1", TodayStr, DeanWeekDays)
    \/ \E sid \in StudentIds : delete_student("c1", sid)

DeanNext ==
    \/ \E g \in Groups : dean_create_student(g)
    \/ \E sid \in StudentIds : \E g \in Groups : dean_update_student(sid, g)
    \/ \E sid \in StudentIds : dean_delete_student(sid)
    \/ \E id \in 1..MaxFacts : \E p \in JustifyPayloads : justify_attendance(id, p)

NextDean ==
    \/ DeanCuratorNext
    \/ DeanNext
    \/ LockNext
    \/ \E g \in Groups : delete_group("vd_delete_group", g)

SpecDean == InitDean /\ [][NextDean]_vars

\* ------------------------------------------------------------- SpecGroups
\* the dean and the vice-dean managing the groups of the faculty
InitGroups ==
    /\ groups = [g \in Groups |->
                    [exists |-> g = 1,
                     curator_id |-> IF g = 1 THEN "c1" ELSE NoCurator,
                     is_active |-> "true", is_closed |-> FALSE,
                     is_deleted |-> FALSE]]
    /\ students = [s \in StudentIds |->
                    [exists |-> s <= 1,
                     group_id |-> IF s = 2 THEN 2 ELSE 1,
                     is_deleted |-> FALSE, total_absent_hours |-> 0]]
    /\ lessons = {}
    /\ attendance = {}
    /\ today = SATURDAY
    /\ resp = Response("init", "ok")
    /\ txn = [p \in Procs |-> IdleTxn]

\* a user of the faculty who is no curator
NotACurator == DEAN

CuratorInputs == Curators \cup {NoCurator, NotACurator}

PatchPayloads ==
    [has_curator : {TRUE}, curator_id : CuratorInputs,
     has_active : {FALSE}, is_active : {FALSE}]
    \cup [has_curator : {FALSE}, curator_id : {NoCurator},
          has_active : {TRUE}, is_active : BOOLEAN]

NextGroups ==
    \/ \E c \in CuratorInputs : create_group("dean_create_group", c)
    \/ \E c \in CuratorInputs : create_group("vd_create_group", c)
    \/ \E g \in Groups : \E c \in CuratorInputs : dean_update_group(g, c)
    \/ \E g \in Groups : \E p \in PatchPayloads : dean_patch_group(g, p)
    \/ \E g \in Groups : \E c \in CuratorInputs : assign_curator_to_group(g, c)
    \/ \E g \in Groups : delete_group("dean_delete_group", g)
    \/ \E g \in Groups : \E p \in PatchPayloads : vd_update_group(g, p)
    \/ \E g \in Groups : \E c \in CuratorInputs : assign_curator(g, c)
    \/ \E g \in Groups : delete_group("vd_delete_group", g)
    \/ LockNext

SpecGroups == InitGroups /\ [][NextGroups]_vars

\* ------------------------------------------------------------- SpecConc
\* Two mark requests run statement by statement, each in its own session.
\* The database is PostgreSQL at READ COMMITTED: a statement sees the rows
\* committed before it starts and the writes of its own session; the writes
\* of a session reach the tables at its commit.

\* the rows of every session that are written and not yet committed
PendingLessons == UNION {txn[q].new_lessons : q \in Procs}

PendingFacts == UNION {txn[q].new_att : q \in Procs}

\* a table without the constraint: no insert conflicts
unique_student_lesson_none(rows, student_id, lesson_id) == {}

\* UniqueConstraint("student_id", "lesson_id"): the rows of the index that
\* conflict with an insert of the pair
unique_student_lesson(rows, student_id, lesson_id) ==
    AttRows(rows, student_id, lesson_id)

\* the attendance rows a statement of session p reads
VisibleFacts(p) ==
    {IF \E u \in txn[p].upd_att : u.id = a.id
     THEN CHOOSE u \in txn[p].upd_att : u.id = a.id
     ELSE a : a \in attendance}
    \cup txn[p].new_att

\* mark_student up to the student lookup: the request is rejected or the
\* session goes on to resolve the lesson
begin_mark(p, curator_id, sid, date_str, nb_hours) ==
    /\ txn[p].pc = "idle"
    /\ \E g \in GateGroups(curator_id) :
         IF mark_student_code(curator_id, g, sid, date_str, nb_hours) # "ok"
         THEN Reject("mark_student",
                     mark_student_code(curator_id, g, sid, date_str, nb_hours))
         ELSE /\ txn' = [txn EXCEPT ![p] =
                    [IdleTxn EXCEPT !.pc = "lesson",
                                    !.curator_id = curator_id,
                                    !.group_id = g, !.sid = sid,
                                    !.mark_date = date_str.date,
                                    !.nb_hours = nb_hours,
                                    !.loaded_total =
                                        students[sid].total_absent_hours]]
              /\ UNCHANGED <<groups, students, lessons, attendance, today, resp>>

\* _get_or_create_lesson in session p: the query, and the insert flushed
\* when the query found no row
lesson_stmt(p) ==
    /\ txn[p].pc = "lesson"
    /\ \E lr \in _get_or_create_lesson(lessons,
                     MaxId(lessons \cup PendingLessons) + 1,
                     txn[p].group_id, txn[p].mark_date) :
         /\ Cardinality(lessons \cup PendingLessons \cup lr.lessons) <= MaxLessons
         /\ txn' = [txn EXCEPT ![p].pc = "upsert",
                               ![p].lesson_id = lr.id,
                               ![p].new_lessons = lr.lessons \ lessons]
    /\ UNCHANGED <<groups, students, lessons, attendance, today, resp>>

\* the query of _upsert_attendance: the row of the pair, if one is committed
upsert_query(p) ==
    /\ txn[p].pc = "upsert"
    /\ LET found == AttRows(attendance, txn[p].sid, txn[p].lesson_id)
       IN  IF found = {}
           THEN txn' = [txn EXCEPT ![p].pc = "flush", ![p].loaded = {}]
           ELSE \E a \in found :
                  txn' = [txn EXCEPT ![p].pc = "flush", ![p].loaded = {a}]
    /\ UNCHANGED <<groups, students, lessons, attendance, today, resp>>

\* the columns the unit of work puts in the UPDATE: those whose value differs
\* from the one loaded
ChangedColumns(old, nb_hours, comment, marked_by) ==
    {c \in {"nb_hours", "status", "comment", "marked_by"} :
        old[c] # [nb_hours |-> nb_hours, status |-> StatusOf(nb_hours),
                  comment |-> comment, marked_by |-> marked_by][c]}

\* the flush of _upsert_attendance with a loaded row: the UPDATE waits for
\* the lock of a session that has written the row
flush_update(p) ==
    /\ txn[p].pc = "flush"
    /\ txn[p].loaded # {}
    /\ LET old == CHOOSE a \in txn[p].loaded : TRUE
           cols == ChangedColumns(old, txn[p].nb_hours, "", txn[p].curator_id)
       IN  /\ \A q \in Procs \ {p} : \A u \in txn[q].upd_att : u.id # old.id
           /\ txn' = [txn EXCEPT
                  ![p].pc = "recalc",
                  ![p].upd_att =
                      IF cols = {} THEN {}
                      ELSE LET cur == CHOOSE a \in attendance : a.id = old.id
                           IN  {[cur EXCEPT
                                   !.nb_hours = IF "nb_hours" \in cols
                                                THEN txn[p].nb_hours ELSE @,
                                   !.status = IF "status" \in cols
                                              THEN StatusOf(txn[p].nb_hours)
                                              ELSE @,
                                   !.marked_by = IF "marked_by" \in cols
                                                 THEN txn[p].curator_id ELSE @]}]
    /\ UNCHANGED <<groups, students, lessons, attendance, today, resp>>

\* the flush of _upsert_attendance without a loaded row: the INSERT waits
\* for a session that has inserted the pair, and fails when the pair is
\* committed; the IntegrityError ends the request and the session rolls back
flush_insert(p) ==
    /\ txn[p].pc = "flush"
    /\ txn[p].loaded = {}
    /\ unique_student_lesson(PendingFacts, txn[p].sid, txn[p].lesson_id) = {}
    /\ IF unique_student_lesson(attendance, txn[p].sid, txn[p].lesson_id) # {}
       THEN /\ txn' = [txn EXCEPT ![p] = IdleTxn]
            /\ resp' = Response("mark_student", "ServerError")
            /\ UNCHANGED <<groups, students, lessons, attendance, today>>
       ELSE /\ Cardinality(attendance \cup PendingFacts) < MaxFacts
            /\ txn' = [txn EXCEPT
                   ![p].pc = "recalc",
                   ![p].new_att =
                       {NewAttendance(MaxId(attendance \cup PendingFacts) + 1,
                            txn[p].lesson_id, txn[p].sid, txn[p].nb_hours,
                            StatusOf(txn[p].nb_hours), "", txn[p].curator_id)}]
            /\ UNCHANGED <<groups, students, lessons, attendance, today, resp>>

\* _recalc_nb in session p
recalc_stmt(p) ==
    /\ txn[p].pc = "recalc"
    /\ txn' = [txn EXCEPT ![p].pc = "commit",
                          ![p].total = _recalc_nb(VisibleFacts(p), txn[p].sid)]
    /\ UNCHANGED <<groups, students, lessons, attendance, today, resp>>

\* db.commit() of session p: the student row is updated when its total
\* differs from the one loaded, and the writes of the session are committed
commit_stmt(p) ==
    /\ txn[p].pc = "commit"
    /\ lessons' = lessons \cup txn[p].new_lessons
    /\ attendance' =
         {IF \E u \in txn[p].upd_att : u.id = a.id
          THEN CHOOSE u \in txn[p].upd_att : u.id = a.id
          ELSE a : a \in attendance} \cup txn[p].new_att
    /\ students' =
         IF txn[p].total # txn[p].loaded_total
         THEN [students EXCEPT ![txn[p].sid].total_absent_hours = txn[p].total]
         ELSE students
    /\ resp' = Response("mark_student", "ok")
    /\ txn' = [txn EXCEPT ![p] = IdleTxn]
    /\ UNCHANGED <<groups, today>>

\* the journal before the two requests: empty, or holding the lesson of
\* today that a mark_day without records has created
InitConc ==
    /\ groups = [g \in Groups |->
                    [exists |-> TRUE,
                     curator_id |-> IF g = 1 THEN "c1" ELSE "c2",
                     is_active |-> "true", is_closed |-> FALSE,
                     is_deleted |-> FALSE]]
    /\ students = [s \in StudentIds |->
                    [exists |-> s <= 1,
                     group_id |-> IF s = 2 THEN 2 ELSE 1,
                     is_deleted |-> FALSE, total_absent_hours |-> 0]]
    /\ lessons \in {{}, {NewLesson(1, 1, SATURDAY)}}
    /\ attendance = {}
    /\ today = SATURDAY
    /\ resp = Response("init", "ok")
    /\ txn = [p \in Procs |-> IdleTxn]

ConcDateStrs ==
    {[kind |-> "iso", date |-> d] : d \in {SATURDAY - 1, SATURDAY}}

NextConc ==
    \/ \E p \in Procs : \E ds \in ConcDateStrs : \E h \in {0, MaxHours} :
         begin_mark(p, "c1", 1, ds, h)
    \/ \E p \in Procs : lesson_stmt(p)
    \/ \E p \in Procs : upsert_query(p)
    \/ \E p \in Procs : flush_update(p)
    \/ \E p \in Procs : flush_insert(p)
    \/ \E p \in Procs : recalc_stmt(p)
    \/ \E p \in Procs : commit_stmt(p)

SpecConc == InitConc /\ [][NextConc]_vars

\* ------------------------------------------------------------- SpecBatch
\* One marking request runs statement by statement in its session: the
\* lessons and facts it flushes and the totals it sets stay in the session
\* until db.commit(); an exception before the commit closes the session,
\* which rolls it back.

\* the checks of a request pass: the session starts on the days of the payload
StartBatch(p, op, curator_id, g, days) ==
    /\ txn' = [txn EXCEPT ![p] =
           [IdleTxn EXCEPT !.pc = "b_day", !.op = op,
                           !.curator_id = curator_id, !.group_id = g,
                           !.days = days]]
    /\ UNCHANGED <<groups, students, lessons, attendance, today, resp>>

begin_mark_day(p, curator_id, date_str, record_lists) ==
    /\ txn[p].pc = "idle"
    /\ \E g \in GateGroups(curator_id) :
         IF mark_day_code(curator_id, g, date_str) # "ok"
         THEN Reject("mark_day", mark_day_code(curator_id, g, date_str))
         ELSE \E records \in record_lists :
                StartBatch(p, "mark_day", curator_id, g,
                           <<[date_str |-> date_str, records |-> records]>>)

begin_mark_student(p, curator_id, sid, date_str, nb_hours, comment) ==
    /\ txn[p].pc = "idle"
    /\ \E g \in GateGroups(curator_id) :
         IF mark_student_code(curator_id, g, sid, date_str, nb_hours) # "ok"
         THEN Reject("mark_student",
                     mark_student_code(curator_id, g, sid, date_str, nb_hours))
         ELSE StartBatch(p, "mark_student", curator_id, g,
                         <<[date_str |-> date_str,
                            records |-> <<[student_id |-> sid,
                                           nb_hours |-> nb_hours,
                                           comment |-> comment]>>]>>)

begin_save_week(p, curator_id, week_start, week_days) ==
    /\ txn[p].pc = "idle"
    /\ \E g \in GateGroups(curator_id) :
         IF save_week_code(curator_id, g, week_start) # "ok"
         THEN Reject("save_week", save_week_code(curator_id, g, week_start))
         ELSE \E days \in week_days :
                StartBatch(p, "save_week", curator_id, g, days)

\* the next day of the payload: save_week skips a day that is malformed or
\* outside monday..saturday; otherwise the lesson of the day is resolved
batch_day(p) ==
    /\ txn[p].pc = "b_day"
    /\ IF txn[p].days = << >>
       THEN txn' = [txn EXCEPT ![p].pc = "b_recalc"]
       ELSE LET day == Head(txn[p].days)
            IN  IF /\ txn[p].op = "save_week"
                   /\ \/ day.date_str.kind # "iso"
                      \/ ~InWindow(day.date_str.date, today)
                THEN txn' = [txn EXCEPT ![p].days = Tail(@)]
                ELSE \E lr \in _get_or_create_lesson(
                                   lessons \cup txn[p].new_lessons,
                                   MaxId(lessons \cup PendingLessons) + 1,
                                   txn[p].group_id, day.date_str.date) :
                       /\ Cardinality(lr.lessons) <= MaxLessons
                       /\ txn' = [txn EXCEPT
                              ![p].pc = "b_record",
                              ![p].days = Tail(@),
                              ![p].records = day.records,
                              ![p].lesson_id = lr.id,
                              ![p].new_lessons = lr.lessons \ lessons]
    /\ UNCHANGED <<groups, students, lessons, attendance, today, resp>>

\* the next record of the day: skipped, or upserted and flushed
batch_record(p) ==
    /\ txn[p].pc = "b_record"
    /\ IF txn[p].records = << >>
       THEN txn' = [txn EXCEPT ![p].pc = "b_day"]
       ELSE LET rec == Head(txn[p].records)
            IN  IF \/ rec.student_id \notin ValidSids(txn[p].group_id)
                   \/ rec.nb_hours < 0 \/ rec.nb_hours > MaxHours
                THEN txn' = [txn EXCEPT ![p].records = Tail(@)]
                ELSE LET view == _upsert_attendance(VisibleFacts(p),
                                     txn[p].lesson_id, rec.student_id,
                                     rec.nb_hours, rec.comment,
                                     txn[p].curator_id)
                         ids == {a.id : a \in attendance}
                     IN  /\ Cardinality(view) <= MaxFacts
                         /\ txn' = [txn EXCEPT
                                ![p].records = Tail(@),
                                ![p].touched = @ \cup {rec.student_id},
                                ![p].new_att = {a \in view : a.id \notin ids},
                                ![p].upd_att = {a \in view : a.id \in ids
                                                  /\ a \notin attendance}]
    /\ UNCHANGED <<groups, students, lessons, attendance, today, resp>>

\* the recalculation loop: the total of every touched student, set on its row
batch_recalc(p) ==
    /\ txn[p].pc = "b_recalc"
    /\ txn' = [txn EXCEPT
           ![p].pc = "b_commit",
           ![p].new_totals =
               {[sid |-> s, total |-> _recalc_nb(VisibleFacts(p), s)] :
                   s \in txn[p].touched}]
    /\ UNCHANGED <<groups, students, lessons, attendance, today, resp>>

\* db.commit(): the lessons, facts and totals of the session reach the tables
batch_commit(p) ==
    /\ txn[p].pc = "b_commit"
    /\ lessons' = lessons \cup txn[p].new_lessons
    /\ attendance' = VisibleFacts(p)
    /\ students' =
         [s \in StudentIds |->
            IF \E t \in txn[p].new_totals : t.sid = s
            THEN [students[s] EXCEPT !.total_absent_hours =
                     (CHOOSE t \in txn[p].new_totals : t.sid = s).total]
            ELSE students[s]]
    /\ resp' = Response(txn[p].op, "ok")
    /\ txn' = [txn EXCEPT ![p] = IdleTxn]
    /\ UNCHANGED <<groups, today>>

\* a faulty failure path: what the session has flushed is committed
batch_fail_keeps_writes(p) ==
    /\ txn[p].pc \in {"b_day", "b_record", "b_recalc", "b_commit"}
    /\ lessons' = lessons \cup txn[p].new_lessons
    /\ attendance' = VisibleFacts(p)
    /\ resp' = Response(txn[p].op, "ServerError")
    /\ txn' = [txn EXCEPT ![p] = IdleTxn]
    /\ UNCHANGED <<groups, students, today>>

\* an exception before the commit (int() of a malformed nb_hours, a database
\* error): the request ends with a server error and get_db closes the
\* session, which rolls back what it has flushed
batch_fail(p) ==
    /\ txn[p].pc \in {"b_day", "b_record", "b_recalc", "b_commit"}
    /\ resp' = Response(txn[p].op, "ServerError")
    /\ txn' = [txn EXCEPT ![p] = IdleTxn]
    /\ UNCHANGED <<groups, students, lessons, attendance, today>>

\* a group of two students on a Saturday, nothing marked yet
InitBatch ==
    /\ groups = [g \in Groups |->
                    [exists |-> TRUE,
                     curator_id |-> IF g = 1 THEN "c1" ELSE "c2",
                     is_active |-> "true", is_closed |-> FALSE,
                     is_deleted |-> FALSE]]
    /\ students = [s \in StudentIds |->
                    [exists |-> TRUE, group_id |-> 1,
                     is_deleted |-> FALSE, total_absent_hours |-> 0]]
    /\ lessons = {}
    /\ attendance = {}
    /\ today = SATURDAY
    /\ resp = Response("init", "ok")
    /\ txn = [p \in Procs |-> IdleTxn]

BatchRecordLists ==
    UNION {[1..n -> [student_id : StudentIds, nb_hours : {0, MaxHours},
                     comment : {""}]
                    \cup [student_id : {1}, nb_hours : {MaxHours + 1},
                          comment : {""}]] : n \in 0..MaxRecords}

BatchWeekDays ==
    {<<[date_str |-> [kind |-> "iso", date |-> SATURDAY - 1], records |-> r1],
       [date_str |-> [kind |-> "iso", date |-> d], records |-> r2]>> :
        r1 \in DeanRecordLists, r2 \in DeanRecordLists,
        d \in {SATURDAY, SATURDAY + 1}}

NextBatch ==
    \/ \E ds \in ConcDateStrs : begin_mark_day("p1", "c1", ds, BatchRecordLists)
    \/ \E sid \in StudentIds : \E ds \in ConcDateStrs : \E h \in {0, MaxHours} :
         begin_mark_student("p1", "c1", sid, ds, h, "")
    \/ begin_save_week("p1", "c1", TodayStr, BatchWeekDays)
    \/ batch_day("p1")
    \/ batch_record("p1")
    \/ batch_recalc("p1")
    \/ batch_commit("p1")
    \/ batch_fail("p1")

SpecBatch == InitBatch /\ [][NextBatch]_vars

\* ------------------------------------------------------------- SpecLedger
\* one group's journal within a week: the curator marks, corrects, enrols and
\* removes students, the dean justifies facts and moves or removes students
InitLedger ==
    /\ groups = [g \in Groups |->
                    [exists |-> TRUE,
                     curator_id |-> IF g = 1 THEN "c1" ELSE "c2",
                     is_active |-> "true", is_closed |-> FALSE,
                     is_deleted |-> FALSE]]
    /\ \E two \in BOOLEAN :
         students = [s \in StudentIds |->
                       [exists |-> (s = 1 \/ two), group_id |-> 1,
                        is_deleted |-> FALSE, total_absent_hours |-> 0]]
    /\ lessons = {}
    /\ attendance = {}
    /\ today = SATURDAY
    /\ resp = Response("init", "ok")
    /\ txn = [p \in Procs |-> IdleTxn]

LedgerHours == {0, 3, MaxHours}

LedgerRecords ==
    [student_id : StudentIds, nb_hours : {0, MaxHours}, comment : {""}]

\* no record, one record, or two records that differ (the second may name
\* the student of the first again)
LedgerRecordLists ==
    {<< >>} \cup {<<r>> : r \in LedgerRecords}
    \cup {<<r1, r2>> : r1 \in {r \in LedgerRecords : r.student_id = 1},
                       r2 \in {r \in LedgerRecords :
                                 r.student_id = 2 \/ r.nb_hours = 0}}

NextLedger ==
    \/ mark_day("c1", TodayStr, LedgerRecordLists)
    \/ \E sid \in StudentIds : \E ds \in ConcDateStrs : \E h \in LedgerHours :
         mark_student("c1", sid, ds, h, "")
    \/ save_week("c1", TodayStr, DeanWeekDays)
    \/ \E h \in {0, MaxHours, MaxHours + 1} : create_student("c1", TRUE, h)
    \/ \E sid \in StudentIds : delete_student("c1", sid)
    \/ \E sid \in StudentIds : dean_update_student(sid, 2)
    \/ \E id \in 1..MaxFacts : \E p \in JustifyPayloads : justify_attendance(id, p)

SpecLedger == InitLedger /\ [][NextLedger]_vars

\* ------------------------------------------------------------- SpecWeekly
\* the dean's weekly view at the end of a week: every day of the week has no
\* lesson, a lesson without marks, a lesson with student 1 marked, or a lesson
\* with both students marked; afterwards the roster changes and marks are added
DayMarks == {"none", "empty", "one", "all"}

InitWeekly ==
    /\ groups = [g \in Groups |->
                    [exists |-> TRUE,
                     curator_id |-> IF g = 1 THEN "c1" ELSE "c2",
                     is_active |-> "true", is_closed |-> FALSE,
                     is_deleted |-> FALSE]]
    /\ students = [s \in StudentIds |->
                    [exists |-> TRUE, group_id |-> 1,
                     is_deleted |-> FALSE, total_absent_hours |-> 0]]
    /\ \E marks \in [0..WeekSpan -> DayMarks] :
         /\ lessons = {NewLesson(d + 1, 1, d) :
                          d \in {e \in 0..WeekSpan : marks[e] # "none"}}
         /\ attendance =
              {NewAttendance(MaxStudents * x[1] + x[2], x[1] + 1, x[2], 0,
                             "present", "", "c1") :
                  x \in {y \in (0..WeekSpan) \X StudentIds :
                           \/ marks[y[1]] = "all"
                           \/ marks[y[1]] = "one" /\ y[2] = 1}}
    /\ today = SATURDAY
    /\ resp = Response("init", "ok")
    /\ txn = [p \in Procs |-> IdleTxn]

NextWeekly ==
    \/ \E ws \in {TodayStr, [kind |-> "bad", date |-> 0]} : weekly_control(ws)
    \/ \E sid \in StudentIds : delete_student("c1", sid)
    \/ \E sid \in StudentIds : mark_student("c1", sid, TodayStr, 0, "")

SpecWeekly == InitWeekly /\ [][NextWeekly]_vars

\* ------------------------------------------------------------- SpecLegacy
\* the journal of two groups of which the first may be a legacy row: its
\* is_active column was never written and is NULL
InitLegacy ==
    /\ \E a \in {"true", "null"} :
         groups = [g \in Groups |->
                     [exists |-> TRUE,
                      curator_id |-> IF g = 1 THEN "c1" ELSE "c2",
                      is_active |-> IF g = 1 THEN a ELSE "true",
                      is_closed |-> FALSE, is_deleted |-> FALSE]]
    /\ students = [s \in StudentIds |->
                    [exists |-> TRUE, group_id |-> IF s = 1 THEN 1 ELSE 2,
                     is_deleted |-> FALSE, total_absent_hours |-> 0]]
    /\ lessons = {}
    /\ attendance = {}
    /\ today = SATURDAY
    /\ resp = Response("init", "ok")
    /\ txn = [p \in Procs |-> IdleTxn]

NextLegacy ==
    \/ \E c \in Curators : mark_day(c, TodayStr, DeanRecordLists)
    \/ \E c \in Curators : \E sid \in StudentIds : \E h \in {0, MaxHours} :
         mark_student(c, sid, TodayStr, h, "")
    \/ \E c \in Curators : save_week(c, TodayStr, DeanWeekDays)
    \/ LockNext

SpecLegacy == InitLegacy /\ [][NextLegacy]_vars

\* ------------------------------------------------------------- SpecRoster
\* the journals of two groups with their own curators while students are
\* deleted and moved between the groups by the dean
NextRoster ==
    \/ \E c \in Curators : mark_day(c, TodayStr, DeanRecordLists)
    \/ \E c \in Curators : \E sid \in StudentIds : \E h \in {0, MaxHours} :
         mark_student(c, sid, TodayStr, h, "")
    \/ \E c \in Curators : save_week(c, TodayStr, DeanWeekDays)
    \/ \E c \in Curators : \E sid \in StudentIds : delete_student(c, sid)
    \/ \E sid \in StudentIds : \E g \in Groups : dean_update_student(sid, g)

SpecRoster == InitLegacy /\ [][NextRoster]_vars

\* ------------------------------------------------------------- SpecAudit
\* the handlers that write an audit entry, with the insert of the entry
\* succeeding or failing in db.flush().  _log / _audit swallow the exception,
\* but a failed flush rolls the session's transaction back and leaves the
\* session refusing the next db.commit() with a PendingRollbackError.
AuditOutcomes == {"written", "flush_fails"}

\* a handler whose audit entry is flushed before its only commit: the failed
\* flush takes the change of the handler with it and the commit raises
AuditBeforeCommit(op, passes, outcome, handler) ==
    IF passes /\ outcome = "flush_fails"
    THEN Reject(op, "ServerError")
    ELSE handler

\* a handler that commits, writes its audit entry and commits again: the
\* change is committed, the second commit raises
AfterCommitCode(outcome) ==
    IF outcome = "flush_fails" THEN "ServerError" ELSE "ok"

close_group_audited(gid, outcome) ==
    AuditBeforeCommit("close_group", close_group_code(gid) = "ok", outcome,
                      close_group(gid))

reopen_group_audited(gid, outcome) ==
    AuditBeforeCommit("reopen_group", reopen_group_code(gid) = "ok", outcome,
                      reopen_group(gid))

dean_patch_group_audited(gid, payload, outcome) ==
    AuditBeforeCommit("dean_patch_group",
                      gid \in FacultyGroups /\ PatchCode(payload) = "ok",
                      outcome, dean_patch_group(gid, payload))

mark_day_audited(curator_id, date_str, record_lists, outcome) ==
    mark_day_then(curator_id, date_str, record_lists, AfterCommitCode(outcome))

save_week_audited(curator_id, week_start, week_days, outcome) ==
    save_week_then(curator_id, week_start, week_days, AfterCommitCode(outcome))

justify_attendance_audited(att_id, payload, outcome) ==
    justify_attendance_then(att_id, payload, AfterCommitCode(outcome))

NextAudit ==
    \/ \E o \in AuditOutcomes : mark_day_audited("c1", TodayStr, DeanRecordLists, o)
    \/ \E o \in AuditOutcomes : save_week_audited("c1", TodayStr, DeanWeekDays, o)
    \/ \E id \in 1..MaxFacts : \E p \in JustifyPayloads : \E o \in AuditOutcomes :
         justify_attendance_audited(id, p, o)
    \/ \E g \in Groups : \E o \in AuditOutcomes : close_group_audited(g, o)
    \/ \E g \in Groups : \E o \in AuditOutcomes : reopen_group_audited(g, o)
    \/ \E g \in Groups : \E p \in PatchPayloads : \E o \in AuditOutcomes :
         dean_patch_group_audited(g, p, o)

SpecAudit == InitBatch /\ [][NextAudit]_vars

\* ------------------------------------------------------------- properties
\* C1: after every completed mutating call, every student's
\* total_absent_hours equals the sum of nb_hours over the student's
\* attendance facts with nb_hours > 0.
C1_TotalEqualsSum ==
    \A s \in StudentIds :
        students[s].exists =>
            students[s].total_absent_hours =
                SumHours({a \in attendance : a.student_id = s /\ a.nb_hours > 0})

\* C2: no operation removes an attendance fact: along every step each lesson
\* stays, each fact stays attached to its student and lesson, and so the
\* number of facts of each lesson never decreases.
C2_NoFactRemoved ==
    [][/\ \A l \in lessons : l \in lessons'
       /\ \A a \in attendance : \E b \in attendance' :
            b.id = a.id /\ b.student_id = a.student_id /\ b.lesson_id = a.lesson_id
       /\ \A l \in lessons :
            Cardinality({a \in attendance' : a.lesson_id = l.id})
                >= Cardinality({a \in attendance : a.lesson_id = l.id})]_vars

\* a justified fact is still there after its student was soft-deleted and
\* its group was deleted
C2_Witness ==
    \E a \in attendance :
        /\ a.is_reasoned
        /\ students[a.student_id].is_deleted
        /\ groups[GroupOfFact(a)].is_deleted

\* C3: under sequential execution there is at most one lesson per
\* (group, date), and resolving a pair that has a lesson returns that lesson
\* and creates nothing.
C3_OneLessonPerGroupDate ==
    /\ \A l1, l2 \in lessons :
          (l1.group_id = l2.group_id /\ l1.lesson_date = l2.lesson_date)
              => l1 = l2
    /\ \A l \in lessons :
          _get_or_create_lesson(lessons, MaxId(lessons) + 1, l.group_id,
                                l.lesson_date)
              = {[lessons |-> lessons, id |-> l.id]}

\* one lesson carries the transfer fact create_student attached and a fact
\* a marking call attached: two calls resolved the same (group, date)
C3_Witness ==
    \E a, b \in attendance :
        /\ a.lesson_id = b.lesson_id
        /\ a.comment = TRANSFER_COMMENT
        /\ b.comment # TRANSFER_COMMENT

\* C4: with two mark requests for the same (group, date) interleaved, each
\* in its own transaction, the committed lessons never hold two rows of one
\* (group, date).
C4_NoDuplicateLessonConcurrent ==
    \A g \in Groups : \A d \in 0..MaxDay :
        Cardinality(LessonRows(lessons, g, d)) <= 1

\* C5: in every state, the states interleaved upserts of one pair reach
\* included, there is at most one attendance fact per (student, lesson).
C5_OneFactPerStudentLesson ==
    \A s \in StudentIds : \A l \in lessons :
        Cardinality(AttRows(attendance, s, l.id)) <= 1

\* two sessions have upserted the pair at once: one fact is committed and
\* the insert of the other session was refused
C5_Witness ==
    /\ resp = Response("mark_student", "ServerError")
    /\ attendance # {}

\* C6: _upsert_attendance applied twice with the same arguments leaves one
\* fact of the pair, and the table and the student's recomputed total after
\* the second application equal those after the first.
C6_UpsertIdempotent ==
    \A l \in lessons : \A s \in StudentIds : \A h \in {0, MaxHours} :
    \A c \in Comments : \A u \in Curators :
        LET once == _upsert_attendance(attendance, l.id, s, h, c, u)
            twice == _upsert_attendance(once, l.id, s, h, c, u)
        IN  /\ Cardinality(AttRows(twice, s, l.id)) = 1
            /\ twice = once
            /\ _recalc_nb(twice, s) = _recalc_nb(once, s)

\* a fact with hours is in the table, and upserting its own values again
\* leaves the table as it is
C6_Witness ==
    \E a \in attendance :
        /\ a.nb_hours = MaxHours
        /\ _upsert_attendance(attendance, a.lesson_id, a.student_id,
                              a.nb_hours, a.comment, a.marked_by) = attendance

\* the journal of a group: its lessons, the facts of its lessons, its students
JournalOf(g) ==
    [lessons |-> {l \in lessons : l.group_id = g},
     facts |-> {a \in attendance : GroupOfFact(a) = g},
     students |-> {[id |-> s, row |-> students[s]] :
                      s \in {x \in StudentIds : /\ students[x].exists
                                                /\ students[x].group_id = g}}]

\* C7: while a group is closed, no operation of any role changes its
\* journal: its lessons, the facts of its lessons and its students stay as
\* they are.
C7_ClosedJournalFrozen ==
    [][\A g \in Groups :
          (groups[g].is_closed /\ groups'[g].is_closed)
              => JournalOf(g)' = JournalOf(g)]_vars

\* C8: after close_group(G), a mark_student call of G's curator is rejected
\* with GroupClosed.
C8_ClosedGroupRejectsWithGroupClosed ==
    \A G \in Groups :
        groups[G].is_closed =>
            \A g \in GateGroups(groups[G].curator_id) : \A sid \in StudentIds :
                mark_student_code(groups[G].curator_id, g, sid, TodayStr,
                                  MaxHours) = "GroupClosed"

\* C9: is_closed becomes true only by close_group, which sets is_active
\* false, and becomes false only by reopen_group, which sets is_active true;
\* a rejected close_group or reopen_group leaves the groups unchanged, and
\* close_group of a closed group and reopen_group of an open one are rejected.
C9_LockStateMachine ==
    /\ [](\A g \in FacultyGroups :
            /\ groups[g].is_closed => close_group_code(g) = "BadRequest"
            /\ ~groups[g].is_closed => reopen_group_code(g) = "BadRequest")
    /\ [][/\ \A g \in Groups :
               /\ (groups[g].exists /\ ~groups[g].is_closed /\ groups'[g].is_closed)
                     => /\ resp' = Response("close_group", "ok")
                        /\ groups'[g].is_active = "false"
               /\ (groups[g].exists /\ groups[g].is_closed /\ ~groups'[g].is_closed)
                     => /\ resp' = Response("reopen_group", "ok")
                        /\ groups'[g].is_active = "true"
          /\ (resp'.op \in {"close_group", "reopen_group"} /\ resp'.code # "ok")
                => groups' = groups]_vars

\* a group was closed and reopened: it is open and active again
C9_Witness ==
    /\ resp = Response("reopen_group", "ok")
    /\ \E g \in FacultyGroups :
          ~groups[g].is_closed /\ groups[g].is_active = "true"

\* the target dates outside monday..monday+5 of the week of now
OutOfWindowStrs(now) ==
    {[kind |-> "iso", date |-> d] :
        d \in {x \in 0..(MaxDay + 1) : ~(/\ now - weekday(now) <= x
                                         /\ x <= now - weekday(now) + WeekSpan)}}

\* C10, for every caller: for every today, a mark_day or mark_student call with a
\* target date outside the week's window is rejected with OutOfWindow, and
\* the call leaves lessons, facts and totals unchanged.
C10_OutOfWindowAlways ==
    /\ [](\A c \in Curators : \A g \in GateGroups(c) :
          \A ds \in OutOfWindowStrs(today) :
            /\ mark_day_code(c, g, ds) = "OutOfWindow"
            /\ \A sid \in StudentIds : \A h \in HoursInputs :
                 mark_student_code(c, g, sid, ds, h) = "OutOfWindow")
    /\ [][(resp'.op \in {"mark_day", "mark_student"} /\ resp'.code # "ok")
             => UNCHANGED <<lessons, attendance, students>>]_vars

\* C10, the lock gate coming first: a mark_day or mark_student call with a
\* target date outside the window is rejected with OutOfWindow when the caller's
\* group passes the lock gate, and with the condition of the gate otherwise;
\* either way it leaves lessons, facts and totals unchanged.
C10_OutOfWindowRejected ==
    /\ [](\A c \in Curators : \A g \in GateGroups(c) :
          \A ds \in OutOfWindowStrs(today) :
            LET expected == IF GateCode(c, g) = "ok" THEN "OutOfWindow"
                            ELSE GateCode(c, g)
            IN  /\ mark_day_code(c, g, ds) = expected
                /\ \A sid \in StudentIds : \A h \in HoursInputs :
                     mark_student_code(c, g, sid, ds, h) = expected)
    /\ [][(resp'.op \in {"mark_day", "mark_student"} /\ resp'.code # "ok")
             => UNCHANGED <<lessons, attendance, students>>]_vars

\* a marking call was rejected for its date while the journal holds a fact
C10_Witness ==
    /\ resp = Response("mark_student", "OutOfWindow")
    /\ attendance # {}

\* the lesson a fact is attached to
LessonOfFact(ls, a) == CHOOSE l \in ls : l.id = a.lesson_id

\* C11: on a day that is not a Saturday, a save_week call of the curator of
\* an open group is rejected with WrongDay whatever week_start and days it
\* carries, and it writes no lesson, fact or total.
C11_SaveWeekWrongDay ==
    /\ [](weekday(today) # SATURDAY =>
            \A c \in Curators : \A g \in GateGroups(c) :
                GateCode(c, g) = "ok" =>
                    \A ws \in DateStrs(today) :
                        save_week_code(c, g, ws) = "WrongDay")
    /\ [][(resp'.op = "save_week" /\ weekday(today) # SATURDAY)
             => /\ resp'.code \in {"WrongDay", "NoActiveGroup", "GroupClosed"}
                /\ UNCHANGED <<lessons, attendance, students>>]_vars

\* a save_week call was rejected on a Monday, over a journal that holds a fact
C11_Witness ==
    /\ resp = Response("save_week", "WrongDay")
    /\ weekday(today) = 0
    /\ attendance # {}

\* C12, for every caller: on a Saturday a save_week call is rejected with
\* OutOfWindow, writing nothing, unless week_start snapped to its Monday is
\* the Monday of the current week; an accepted call creates lessons and
\* writes facts only for dates of Monday..Saturday of the current week.
C12_SaveWeekWindowAlways ==
    /\ [](weekday(today) = SATURDAY =>
            \A c \in Curators : \A g \in GateGroups(c) :
                \A ws \in {x \in DateStrs(today) : x.kind = "iso"} :
                    save_week_code(c, g, ws) =
                        IF ws.date - weekday(ws.date) = _week_bounds(today).monday
                        THEN "ok" ELSE "OutOfWindow")
    /\ [][resp'.op = "save_week" =>
            IF resp'.code = "ok"
            THEN /\ \A l \in lessons' \ lessons : InWindow(l.lesson_date, today)
                 /\ \A a \in attendance' \ attendance :
                      InWindow(LessonOfFact(lessons', a).lesson_date, today)
            ELSE UNCHANGED <<lessons, attendance, students>>]_vars

\* C12, the lock gate coming first: the same for the curator of an open
\* group and a well-formed week_start; a curator without an open group is
\* rejected by the gate, and nothing is written in any rejected call.
C12_SaveWeekWindow ==
    /\ [](weekday(today) = SATURDAY =>
            \A c \in Curators : \A g \in GateGroups(c) :
                \A ws \in {x \in DateStrs(today) : x.kind = "iso"} :
                    save_week_code(c, g, ws) =
                        IF GateCode(c, g) # "ok" THEN GateCode(c, g)
                        ELSE IF ws.date - weekday(ws.date)
                                = _week_bounds(today).monday
                        THEN "ok" ELSE "OutOfWindow")
    /\ [][resp'.op = "save_week" =>
            IF resp'.code = "ok"
            THEN /\ \A l \in lessons' \ lessons : InWindow(l.lesson_date, today)
                 /\ \A a \in attendance' \ attendance :
                      InWindow(LessonOfFact(lessons', a).lesson_date, today)
            ELSE UNCHANGED <<lessons, attendance, students>>]_vars

\* a save_week call was accepted and the lesson of the Saturday holds a fact
C12_Witness ==
    /\ resp = Response("save_week", "ok")
    /\ \E a \in attendance : LessonOfFact(lessons, a).lesson_date = today

\* C13: a marking request is atomic for the committed tables: they change
\* only at its commit, where its lessons, its facts and the totals of the
\* students it touched arrive together; a request that fails part-way leaves
\* them unchanged; so every committed total reflects every committed fact.
C13_AtomicCommit ==
    /\ [](\A s \in StudentIds :
            students[s].total_absent_hours = _recalc_nb(attendance, s))
    /\ [][(lessons' # lessons \/ attendance' # attendance \/ students' # students)
             => \E p \in Procs :
                  /\ txn[p].pc = "b_commit"
                  /\ txn'[p] = IdleTxn
                  /\ resp' = Response(txn[p].op, "ok")
                  /\ txn[p].new_lessons \subseteq lessons'
                  /\ (txn[p].new_att \cup txn[p].upd_att) \subseteq attendance'
                  /\ \A s \in txn[p].touched :
                       students'[s].total_absent_hours = _recalc_nb(attendance', s)]_vars
    /\ [][resp'.code = "ServerError"
             => UNCHANGED <<lessons, attendance, students>>]_vars

\* a save_week request failed before its commit while the tables hold the
\* facts of an earlier request
C13_Witness ==
    /\ resp = Response("save_week", "ServerError")
    /\ attendance # {}

\* C14: every stored attendance fact has status 'absent' exactly when its
\* nb_hours is above zero and 'present' otherwise, whichever of mark_day,
\* mark_student, save_week or create_student wrote it, and also after
\* justify_attendance.
C14_StatusDerived ==
    \A a \in attendance :
        /\ a.status \in {"absent", "present"}
        /\ a.status = "absent" <=> a.nb_hours > 0

\* a justified transfer fact next to a fact marked with zero hours
C14_Witness ==
    /\ \E a \in attendance : a.comment = TRANSFER_COMMENT /\ a.is_reasoned
    /\ \E a \in attendance : a.nb_hours = 0 /\ a.status = "present"

\* C15: every stored attendance fact has 0 <= nb_hours <= 8, whichever
\* operation wrote it, the transfer fact of create_student included.
C15_HoursInRange ==
    \A a \in attendance : 0 <= a.nb_hours /\ a.nb_hours <= MaxHours

\* C16: for every group and date the daily status is NOT_STARTED when
\* marked = 0, COMPLETED when marked >= total and total > 0, and IN_PROGRESS
\* in every other case; COMPLETED is never reported with total = 0.
C16_DailyStatus ==
    \A g \in ControlGroups : \A d \in 0..MaxDay :
        \A info \in _batch_attendance_for_date(g, d) :
            info.status =
                IF info.marked = 0 THEN "NOT_STARTED"
                ELSE IF info.marked >= info.total_students
                        /\ info.total_students > 0 THEN "COMPLETED"
                ELSE "IN_PROGRESS"

StatusRank(status) ==
    IF status = "NOT_STARTED" THEN 0 ELSE IF status = "IN_PROGRESS" THEN 1 ELSE 2

\* the students that have a fact in a lesson of the group on the date
MarkedStudents(att, ls, g, d) ==
    {a.student_id : a \in {b \in att : \E l \in LessonRows(ls, g, d) :
                                          b.lesson_id = l.id}}

\* C17: for one group and date, along mark_day and mark_student calls (which
\* leave the roster unchanged): marked never decreases, it grows by one for
\* every student marked for the first time and not at all on a re-mark, the
\* status never moves backwards and COMPLETED stays COMPLETED.
C17_DailyStatusMonotonic ==
    [][resp'.op \in {"mark_day", "mark_student"} =>
         \A g \in ControlGroups : \A d \in {l.lesson_date : l \in lessons'} :
           \A before \in _batch_attendance_for_date(g, d) :
             \A after \in _batch_attendance_for_date(g, d)' :
               /\ after.total_students = before.total_students
               /\ after.marked >= before.marked
               /\ after.marked = before.marked
                    + Cardinality(MarkedStudents(attendance', lessons', g, d)
                                  \ MarkedStudents(attendance, lessons, g, d))
               /\ StatusRank(after.status) >= StatusRank(before.status)
               /\ before.status = "COMPLETED" => after.status = "COMPLETED"]_vars

\* both students of the group are marked for today and the last call was a
\* correction by mark_student
C17_Witness ==
    /\ resp = Response("mark_student", "ok")
    /\ \E info \in _batch_attendance_for_date(1, today) :
         info.status = "COMPLETED" /\ info.total_students = 2 /\ info.marked = 2
    /\ \E a \in attendance : a.nb_hours = 3

\* the record lists that name distinct students of the group with hours 0..8
DistinctValidRecords(g) ==
    {rs \in RecordLists \cup LedgerRecordLists :
        /\ \A i \in 1..Len(rs) : /\ rs[i].student_id \in ValidSids(g)
                                 /\ rs[i].nb_hours \in 0..MaxHours
        /\ \A i, j \in 1..Len(rs) : i # j => rs[i].student_id # rs[j].student_id}

\* C18: from a group of n students with no lesson for today, a successful
\* mark_day(today, records) naming a set R of distinct valid students with
\* hours 0..8 creates exactly one lesson for (group, today), writes exactly
\* |R| facts, gives every student of R its previous total plus its marked
\* hours, and makes the daily status marked = |R|, total = n, IN_PROGRESS
\* when 0 < |R| < n and COMPLETED when |R| = n > 0; a following mark_day for
\* the remaining students makes it COMPLETED.
C18_MarkDayScenario ==
    /\ [](\A c \in Curators : \A g \in GateGroups(c) :
            (/\ mark_day_code(c, g, TodayStr) = "ok"
             /\ LessonRows(lessons, g, today) = {})
            => \A rs \in DistinctValidRecords(g) :
                 \A w \in mark_day_writes(c, g, today, rs) :
                   /\ Cardinality(LessonRows(w.lessons, g, today)) = 1
                   /\ attendance \subseteq w.attendance
                   /\ Cardinality(w.attendance \ attendance) = Len(rs)
                   /\ \A i \in 1..Len(rs) :
                        /\ w.students[rs[i].student_id].total_absent_hours =
                             students[rs[i].student_id].total_absent_hours
                               + rs[i].nb_hours
                        /\ \E a \in w.attendance \ attendance :
                             /\ a.student_id = rs[i].student_id
                             /\ a.nb_hours = rs[i].nb_hours
                             /\ \E l \in LessonRows(w.lessons, g, today) :
                                  a.lesson_id = l.id)
    /\ [][\A g \in ControlGroups :
            (resp' = Response("mark_day", "ok")
             /\ LessonRows(lessons', g, today) # {})
            => LET R == MarkedStudents(attendance', lessons', g, today)
                   n == Cardinality(ValidSids(g))
               IN \A info \in _batch_attendance_for_date(g, today)' :
                    /\ LessonRows(lessons, g, today) = {} =>
                         /\ info.marked = Cardinality(R)
                         /\ info.total_students = n
                         /\ (0 < Cardinality(R) /\ Cardinality(R) < n)
                              => info.status = "IN_PROGRESS"
                         /\ (Cardinality(R) = n /\ n > 0) => info.status = "COMPLETED"
                    /\ (LessonRows(lessons, g, today) # {} /\ n > 0 /\ ValidSids(g) \subseteq R)
                         => info.status = "COMPLETED"]_vars

\* the facts of a student in the lessons of a group on a date
FactsOn(att, ls, g, d, sid) ==
    {a \in att : a.student_id = sid
                 /\ \E l \in LessonRows(ls, g, d) : a.lesson_id = l.id}

\* C19: a correction replaces: for a student s without a fact on an in-window
\* date d, after mark_student(s, d, h1) followed by mark_student(s, d, h2)
\* there is exactly one fact for (s, lesson(d)), it has nb_hours = h2 and the
\* status derived from h2, and the total of s is its value before the first
\* call plus h2.
C19_CorrectionReplaces ==
    \A c \in Curators : \A g \in GateGroups(c) : \A sid \in StudentIds :
      \A d \in 0..MaxDay : \A h1, h2 \in LedgerHours :
        (/\ mark_student_code(c, g, sid, [kind |-> "iso", date |-> d], h1) = "ok"
         /\ FactsOn(attendance, lessons, g, d, sid) = {})
        => \A w1 \in mark_student_writes(lessons, attendance, students,
                                         c, g, sid, d, h1, "") :
             \A w2 \in mark_student_writes(w1.lessons, w1.attendance, w1.students,
                                           c, g, sid, d, h2, "") :
               /\ Cardinality(FactsOn(w2.attendance, w2.lessons, g, d, sid)) = 1
               /\ \A a \in FactsOn(w2.attendance, w2.lessons, g, d, sid) :
                    /\ a.nb_hours = h2
                    /\ a.status = IF h2 > 0 THEN "absent" ELSE "present"
               /\ w2.students[sid].total_absent_hours =
                    students[sid].total_absent_hours + h2

\* the percentages of zero to six completed days out of six
SixthsPct == <<0, 17, 33, 50, 67, 83, 100>>

\* C20: for every group and week, weekly_control reports completion_pct =
\* round(completedDays / 6 * 100), where completedDays counts the days
\* Monday..Saturday reported COMPLETED, and missing_days lists exactly the
\* days not reported COMPLETED, in order; so completedDays + |missing_days|
\* = 6 and completion_pct is one of 0, 17, 33, 50, 67, 83, 100.
C20_WeeklyCompletion ==
    \A g \in ControlGroups :
      LET monday == _week_bounds(today).monday
      IN  \A r \in WeeklyReports(g, monday) :
            LET completed == {i \in 1..6 : r.days[i].status = "COMPLETED"}
                missing == {i \in 1..6 : r.days[i].status # "COMPLETED"}
            IN  /\ Len(r.days) = 6
                /\ \A i \in 1..6 : r.days[i].day = monday + i - 1
                /\ r.completion_pct = SixthsPct[Cardinality(completed) + 1]
                /\ Len(r.missing_days) = Cardinality(missing)
                /\ Cardinality(completed) + Len(r.missing_days) = 6
                /\ {r.missing_days[k] : k \in 1..Len(r.missing_days)}
                     = {monday + i - 1 : i \in missing}
                /\ \A k \in 1..(Len(r.missing_days) - 1) :
                     r.missing_days[k] < r.missing_days[k + 1]

\* the dean reads a week of group 1 in which five of the six days are
\* completed and Wednesday is missing
C20_Witness ==
    /\ resp = Response("weekly_control", "ok")
    /\ \E r \in WeeklyReports(1, 0) :
         r.completion_pct = 83 /\ r.missing_days = <<2>>

\* the positions of a record list that pass both filters of the batch loop
Accepted(g, rs) ==
    {i \in 1..Len(rs) : /\ rs[i].student_id \in ValidSids(g)
                        /\ rs[i].nb_hours \in 0..MaxHours}

\* the effect of a batch on the rows of one lesson: every accepted record is
\* written (the last one of a student stands), nothing else changes
BatchEffect(g, rs, lid, before, after, studs) ==
    /\ \A i \in Accepted(g, rs) :
         /\ \E a \in AttRows(after, rs[i].student_id, lid) :
              \E k \in Accepted(g, rs) : /\ rs[k].student_id = rs[i].student_id
                                        /\ a.nb_hours = rs[k].nb_hours
                                        /\ \A m \in Accepted(g, rs) :
                                             rs[m].student_id = rs[i].student_id
                                               => m <= k
         /\ studs[rs[i].student_id].total_absent_hours =
              _recalc_nb(after, rs[i].student_id)
    /\ \A a \in after \ before :
         /\ a.lesson_id = lid
         /\ \E i \in Accepted(g, rs) : rs[i].student_id = a.student_id
    /\ \A a \in before \ after :
         /\ a.lesson_id = lid
         /\ \E i \in Accepted(g, rs) : rs[i].student_id = a.student_id

\* C21: in mark_day and save_week a record of a student who is no live member
\* of the group, or with nb_hours outside 0..8, is skipped and the batch goes
\* on: every record that passes is written and its student's total
\* recomputed, no fact is written for a skipped record, and the accepted
\* count returned is the number of submitted records that passed.
C21_InvalidRecordsSkipped ==
    /\ [](\A g \in GateGroups("c1") : GateCode("c1", g) = "ok" =>
            /\ \A rs \in RecordLists :
                 \A w \in mark_day_writes("c1", g, today, rs) :
                   /\ w.updated_count = Cardinality(Accepted(g, rs))
                   /\ BatchEffect(g, rs, w.lesson_id, attendance,
                                  w.attendance, w.students)
            /\ \A rs \in RecordLists :
                 \A r \in ApplyDays(lessons, attendance,
                                    <<[date_str |-> TodayStr, records |-> rs]>>,
                                    g, _week_bounds(today).monday, "c1",
                                    [updated |-> {}, n |-> 0]) :
                   /\ r.n = Cardinality(Accepted(g, rs))
                   /\ r.updated = {rs[i].student_id : i \in Accepted(g, rs)}
                   /\ \A l \in LessonRows(r.lessons, g, today) :
                        BatchEffect(g, rs, l.id, attendance, r.att,
                                    RecalcAll(r.att, r.updated)))
    /\ [][(resp' \in {Response("mark_day", "ok"), Response("save_week", "ok")})
            => \A a \in attendance' \ attendance :
                 /\ \E g \in GateGroups("c1") : a.student_id \in ValidSids(g)
                 /\ a.nb_hours \in 0..MaxHours]_vars

\* a mark_day call went through while student 2 was no member of the group:
\* student 1 has a fact for today, student 2 has none
C21_Witness ==
    /\ resp = Response("mark_day", "ok")
    /\ students[2].group_id = 2
    /\ \E a \in attendance : a.student_id = 1
         /\ LessonOfFact(lessons, a).lesson_date = today
    /\ \A a \in attendance : a.student_id # 2

\* the groups of a curator that are not deleted and whose is_active is not
\* false
OwnGroups(c) ==
    {g \in Groups : /\ groups[g].exists /\ groups[g].curator_id = c
                    /\ ~groups[g].is_deleted /\ groups[g].is_active # "false"}

\* C22: mark_day, mark_student and save_week of a curator without a
\* non-deleted group whose is_active differs from false are rejected with
\* NoActiveGroup and write nothing; a group whose is_active is NULL counts as
\* active, so its curator's mutations are accepted while it is not closed.
C22_NoActiveGroup ==
    /\ [](\A c \in Curators : \A g \in GateGroups(c) :
            /\ OwnGroups(c) = {} =>
                 /\ mark_day_code(c, g, TodayStr) = "NoActiveGroup"
                 /\ save_week_code(c, g, TodayStr) = "NoActiveGroup"
                 /\ \A sid \in StudentIds :
                      mark_student_code(c, g, sid, TodayStr, 0) = "NoActiveGroup"
            /\ (OwnGroups(c) # {} /\ \A o \in OwnGroups(c) : ~groups[o].is_closed) =>
                 /\ mark_day_code(c, g, TodayStr) = "ok"
                 /\ save_week_code(c, g, TodayStr) = "ok"
                 /\ \A sid \in ValidSids(g) :
                      mark_student_code(c, g, sid, TodayStr, 0) = "ok")
    /\ [][resp'.code = "NoActiveGroup"
            => UNCHANGED <<lessons, attendance, students>>]_vars

CuratorOps == {"mark_day", "mark_student", "save_week", "create_student", "delete_student"}

\* C23: justification and hours are independent: justify_attendance changes
\* only is_reasoned, reason_text and reasoned_by of its fact and no total;
\* a curator operation leaves the justification of every existing fact as it
\* is and writes new facts unjustified.
C23_JustificationIndependent ==
    /\ [][resp' = Response("justify_attendance", "ok") =>
            /\ students' = students
            /\ lessons' = lessons
            /\ {a.id : a \in attendance'} = {a.id : a \in attendance}
            /\ \A a \in attendance : \A b \in attendance' :
                 a.id = b.id =>
                   b = [a EXCEPT !.is_reasoned = b.is_reasoned,
                                 !.reason_text = b.reason_text,
                                 !.reasoned_by = b.reasoned_by]]_vars
    /\ [][resp'.op \in CuratorOps =>
            /\ \A a \in attendance : \A b \in attendance' :
                 a.id = b.id =>
                   /\ b.is_reasoned = a.is_reasoned
                   /\ b.reason_text = a.reason_text
                   /\ b.reasoned_by = a.reasoned_by
            /\ \A b \in attendance' :
                 (\A a \in attendance : a.id # b.id) =>
                   /\ b.is_reasoned = FALSE
                   /\ b.reason_text = ""
                   /\ b.reasoned_by = NoUser]_vars

\* a justified absence was corrected to zero hours by the curator and is
\* still justified
C23_Witness ==
    /\ resp = Response("mark_student", "ok")
    /\ \E a \in attendance : /\ a.is_reasoned /\ a.reasoned_by = DEAN
                             /\ a.nb_hours = 0 /\ a.status = "present"
                             /\ a.comment = ""

AuditedOps ==
    {"mark_day", "save_week", "close_group", "reopen_group",
     "justify_attendance", "dean_patch_group"}

\* C24: a failure to record the audit entry never blocks or rolls back the
\* operation it describes: a call of mark_day, save_week, close_group,
\* reopen_group, justify_attendance or patch_group that passes its checks
\* commits its changes and returns success, whether the audit entry could be
\* written or not.
C24_AuditFailureHarmless ==
    /\ [][resp'.op \in AuditedOps => resp'.code # "ServerError"]_vars
    /\ [][\A g \in Groups :
            /\ (resp'.op = "close_group" /\ close_group_code(g) = "ok")
                 => \E h \in Groups : groups'[h].is_closed /\ ~groups[h].is_closed
            /\ (resp'.op = "reopen_group" /\ \A h \in Groups \ {g} :
                                                reopen_group_code(h) # "ok"
                                          /\ reopen_group_code(g) = "ok")
                 => ~groups'[g].is_closed]_vars

\* C25: when requests that touch the same student run concurrently in
\* separate transactions, then once all of them have committed the student's
\* total_absent_hours equals the sum of nb_hours over the student's
\* committed facts.
C25_ConcurrentTotals ==
    (\A p \in Procs : txn[p].pc = "idle") =>
        \A s \in StudentIds :
            students[s].exists =>
                students[s].total_absent_hours
                    = SumHours({a \in attendance : a.student_id = s})

\* C26: through create_group, update_group, patch_group, assign-curator,
\* close and reopen of the dean and the vice-dean every curator is the
\* curator of at most one non-deleted group whose is_active differs from
\* false, so the group _get_group resolves for a curator is unique.
C26_OneActiveGroupPerCurator ==
    \A c \in Curators :
        /\ Cardinality(OwnGroups(c)) <= 1
        /\ Cardinality(_get_group(c)) <= 1

\* C27: a closed group is inactive: is_closed implies is_active = false, and
\* is_active and curator_id of a closed group stay as they are until
\* reopen_group, over all group operations of the vice-dean and the dean.
C27_ClosedGroupInactive ==
    /\ [](\A g \in Groups :
            (groups[g].exists /\ groups[g].is_closed)
                => groups[g].is_active = "false")
    /\ [][\A g \in Groups :
            (groups[g].exists /\ groups[g].is_closed /\ resp'.op # "reopen_group")
                => /\ groups'[g].is_active = groups[g].is_active
                   /\ groups'[g].curator_id = groups[g].curator_id]_vars

\* C28: a lesson exists for (group, date) only with at least one attendance
\* fact: no lesson is left without facts, so has_attendance is true exactly
\* when the daily status of the group and date is not NOT_STARTED.
C28_LessonHasFact ==
    /\ \A l \in lessons : \E a \in attendance : a.lesson_id = l.id
    /\ \A g \in Groups : \A d \in 0..MaxDay :
         \A info \in _batch_attendance_for_date(g, d) :
            has_attendance(g, d) <=> info.status # "NOT_STARTED"

JournalOps == {"mark_day", "mark_student", "save_week"}

LiveMembers(g) ==
    {s \in StudentIds : /\ students[s].exists /\ students[s].group_id = g
                        /\ ~students[s].is_deleted}

\* C29: every fact created or overwritten by mark_day, mark_student or
\* save_week belongs to a student who at the time of the call is a live
\* member of the group resolved for the curator, and hangs on a lesson of
\* that group; the call changes no total of a student of another group and
\* nothing else of any student.
C29_CuratorWritesOwnGroup ==
    [][resp'.op \in JournalOps =>
         \/ /\ attendance' = attendance /\ students' = students
         \/ \E c \in Curators : \E g \in _get_group(c) :
              /\ \A a \in attendance' \ attendance :
                    /\ a.student_id \in LiveMembers(g)
                    /\ LessonOfFact(lessons', a).group_id = g
              /\ \A a \in attendance \ attendance' :
                    a.student_id \in LiveMembers(g)
              /\ \A s \in StudentIds :
                    students'[s] # students[s]
                        => /\ s \in LiveMembers(g)
                           /\ students'[s] =
                                [students[s] EXCEPT !.total_absent_hours =
                                    students'[s].total_absent_hours]]_vars

\* a curator has marked a student who moved into the group, while the
\* student who stayed in the other group has no fact
C29_Witness ==
    /\ resp.op \in JournalOps /\ resp.code = "ok"
    /\ students[2].group_id = 1 /\ ~students[2].is_deleted
    /\ students[1].group_id = 2
    /\ \E a \in attendance : /\ a.student_id = 2 /\ a.marked_by = "c1"
                             /\ LessonOfFact(lessons, a).group_id = 1
    /\ \A a \in attendance : a.student_id # 1

\* C30: for every group and date, in every reachable state, the marked count
\* reported by daily_control and weekly_control never exceeds the reported
\* total number of students, so completion_percentage never exceeds 100.
C30_MarkedWithinTotal ==
    \A g \in ControlGroups : \A d \in 0..MaxDay :
        /\ \A info \in _batch_attendance_for_date(g, d) :
              /\ info.marked <= info.total_students
              /\ completion_percentage(info) <= 100
        /\ \A day \in WeekDayInfos(g, d, Cardinality(ValidSids(g))) :
              day.marked <= day.total
====
